---- MODULE Spec2Model ----
(***************************************************************************)
(* Model of the genai_3d_vr_ar package: the configuration resolver         *)
(* (config.py), the enrichment client (generate_environment.py) and the    *)
(* pipeline cache and request orchestrator (app.py).                       *)
(*                                                                         *)
(* Texts on which the code performs string operations (strip, startswith,  *)
(* upper/lower, int()/float(), concatenation) are sequences of one         *)
(* character strings; opaque texts are plain strings.  Floating point      *)
(* values are held in tenths (0.7 is 7, 7.5 is 75).                        *)
(***************************************************************************)
EXTENDS Integers, Sequences, FiniteSets, TLC

VARIABLES
    env,                    \* os.environ (after load_environment)
    _global_config,         \* config.py module global, None or {ApplicationConfig}
    config_objects,         \* number of ApplicationConfig objects created so far
    _pipeline,              \* app.py module global, None or {pipeline}
    from_pretrained_calls,  \* invocations of DiffusionPipeline.from_pretrained
    req                     \* per caller: the running call, its locals and result

vars == <<env, _global_config, config_objects, _pipeline, from_pretrained_calls, req>>

\* Optional values: Python's None (and an unset environment variable) is the
\* empty set, a present value v is {v}.
None == {}

Some(v) == {v}

The(o) == CHOOSE v \in o : TRUE

\* Cap on DiffusionPipeline.from_pretrained invocations in one run.
MaxConstruct == 2

\* The callers (threads) that may run an operation of the package.
Reqs == {1, 2}

\* the thread that serves the requests when they are served one at a time
MainThread == CHOOSE r \in Reqs : \A q \in Reqs : r <= q

(***************************************************************************)
(* Text helpers (Python str methods and numeric constructors)              *)
(***************************************************************************)
Whitespace == {" ", "\t", "\n"}

Digits == {"0", "1", "2", "3", "4", "5", "6", "7", "8", "9"}

DigitVal(c) ==
    CASE c = "0" -> 0 [] c = "1" -> 1 [] c = "2" -> 2 [] c = "3" -> 3
      [] c = "4" -> 4 [] c = "5" -> 5 [] c = "6" -> 6 [] c = "7" -> 7
      [] c = "8" -> 8 [] c = "9" -> 9 [] OTHER -> 0

LowerLetters == <<"a","b","c","d","e","f","g","h","i","j","k","l","m",
                  "n","o","p","q","r","s","t","u","v","w","x","y","z">>

UpperLetters == <<"A","B","C","D","E","F","G","H","I","J","K","L","M",
                  "N","O","P","Q","R","S","T","U","V","W","X","Y","Z">>

UpperChar(c) ==
    IF \E i \in 1..26 : LowerLetters[i] = c
    THEN UpperLetters[CHOOSE i \in 1..26 : LowerLetters[i] = c]
    ELSE c

LowerChar(c) ==
    IF \E i \in 1..26 : UpperLetters[i] = c
    THEN LowerLetters[CHOOSE i \in 1..26 : UpperLetters[i] = c]
    ELSE c

\* str.upper()
Upper(s) == [i \in 1..Len(s) |-> UpperChar(s[i])]

\* str.lower()
Lower(s) == [i \in 1..Len(s) |-> LowerChar(s[i])]

\* str.strip(): drop leading and trailing whitespace
Strip(s) ==
    LET keep == {i \in 1..Len(s) : s[i] \notin Whitespace}
    IN  IF keep = {} THEN <<>>
        ELSE LET lo == CHOOSE i \in keep : \A j \in keep : i <= j
                 hi == CHOOSE i \in keep : \A j \in keep : j <= i
             IN  SubSeq(s, lo, hi)

\* str.startswith(p)
StartsWith(s, p) == Len(s) >= Len(p) /\ SubSeq(s, 1, Len(p)) = p

\* Python's  a or b  for an optional a and a default b of the same type:
\* a is taken unless it is None or the falsy value of its type (0, 0.0, "").
Or(a, falsy, b) == IF a # None /\ The(a) # falsy THEN The(a) ELSE b

\* Python's  a or b  where both are optional texts (os.getenv results)
OrOpt(a, b) == IF a # None /\ The(a) # <<>> THEN a ELSE b

\* the number written by a sequence of decimal digits
DigitsValue(s) ==
    LET value[i \in 0..Len(s)] ==
            IF i = 0 THEN 0 ELSE 10 * value[i - 1] + DigitVal(s[i])
    IN  value[Len(s)]

AllDigits(s) == s # <<>> /\ \A i \in 1..Len(s) : s[i] \in Digits

\* the text after an optional leading sign
Unsigned(s) == IF s # <<>> /\ s[1] \in {"-", "+"} THEN Tail(s) ELSE s

IsNegative(s) == s # <<>> /\ s[1] = "-"

\* the result of a numeric constructor: the signed value, or ValueError
Parsed(ok, neg, magnitude) ==
    IF ok
    THEN [ok |-> TRUE, value |-> IF neg THEN 0 - magnitude ELSE magnitude]
    ELSE [ok |-> FALSE, value |-> 0]

ParseIntStripped(s) ==
    Parsed(AllDigits(Unsigned(s)), IsNegative(s), DigitsValue(Unsigned(s)))

\* int(text): surrounding whitespace, an optional sign, one or more digits;
\* anything else raises ValueError.
ParseInt(text) == ParseIntStripped(Strip(text))

\* position of the first decimal point, Len(body) + 1 when there is none
DotAt(body) ==
    IF \E i \in 1..Len(body) : body[i] = "."
    THEN CHOOSE i \in 1..Len(body) :
             body[i] = "." /\ \A j \in 1..(i - 1) : body[j] # "."
    ELSE Len(body) + 1

\* ip and fp are the digits before and after the point
ParseFloatParts(ip, fp, points, neg) ==
    Parsed(/\ points <= 1
           /\ AllDigits(ip)
           /\ (fp = <<>> \/ (Len(fp) = 1 /\ AllDigits(fp))),
           neg,
           10 * DigitsValue(ip) + DigitsValue(fp))

ParseFloatUnsigned(body, dot, neg) ==
    ParseFloatParts(SubSeq(body, 1, dot - 1), SubSeq(body, dot + 1, Len(body)),
                    Cardinality({i \in 1..Len(body) : body[i] = "."}), neg)

ParseFloatStripped(s) == ParseFloatUnsigned(Unsigned(s), DotAt(Unsigned(s)), IsNegative(s))

\* float(text), in tenths: surrounding whitespace, an optional sign, digits,
\* and optionally a point followed by one digit; anything else raises
\* ValueError.
ParseFloat(text) == ParseFloatStripped(Strip(text))

(***************************************************************************)
(* Exceptions and call results                                             *)
(***************************************************************************)
Exc(type, msg) == [type |-> type, msg |-> msg]

\* the outcome of a call: a returned value or a raised exception
Return(v) == [raised |-> FALSE, exc |-> Exc("", ""), value |-> Some(v)]

Raise(type, msg) == [raised |-> TRUE, exc |-> Exc(type, msg), value |-> None]

(***************************************************************************)
(* config.py                                                               *)
(***************************************************************************)
\* os.getenv(key): None when the variable is unset
getenv(e, key) == e[key]

\* os.getenv(key, default)
getenv_default(e, key, default) == IF e[key] = None THEN default ELSE The(e[key])

PlaceholderPrefix == <<"<", "y", "o", "u", "r">>

DefaultMaxTokens == <<"2", "5", "0">>

DefaultMinTokens == <<"1", "5", "0">>

DefaultTemperature == <<"0", ".", "7">>

DefaultDecodingMethod == <<"s", "a", "m", "p", "l", "e">>

DefaultNumInferenceSteps == <<"5", "0">>

DefaultGuidanceScale == <<"7", ".", "5">>

DefaultTriggerWord == <<"q", "x", "j">>

TextTrue == <<"t", "r", "u", "e">>

TextFalse == <<"f", "a", "l", "s", "e">>

TextINFO == <<"I", "N", "F", "O">>

\* the level names logging.Logger.setLevel accepts
LogLevelNames ==
    { <<"C","R","I","T","I","C","A","L">>, <<"F","A","T","A","L">>,
      <<"E","R","R","O","R">>, <<"W","A","R","N">>, <<"W","A","R","N","I","N","G">>,
      <<"I","N","F","O">>, <<"D","E","B","U","G">>, <<"N","O","T","S","E","T">> }

\* a get_watsonx_config that tests only the API key for the placeholder
WatsonXConfigFrom_project_unchecked(api_key, project_id, max_tokens, min_tokens, temperature, e) ==
    IF api_key = None \/ The(api_key) = <<>> \/ StartsWith(The(api_key), PlaceholderPrefix)
    THEN Raise("ConfigurationError", "API_KEY not found or contains placeholder value")
    ELSE IF project_id = None \/ The(project_id) = <<>>
    THEN Raise("ConfigurationError", "PROJECT_ID not found or contains placeholder value")
    ELSE IF ~max_tokens.ok \/ ~min_tokens.ok \/ ~temperature.ok
    THEN Raise("ConfigurationError", "Invalid numeric configuration value")
    ELSE Return([api_key         |-> The(api_key),
                 project_id      |-> The(project_id),
                 url             |-> getenv_default(e, "WATSONX_URL", "https://us-south.ml.cloud.ibm.com"),
                 model_type      |-> getenv_default(e, "WATSONX_MODEL_TYPE", "ibm/mpt-7b-instruct2"),
                 max_tokens      |-> max_tokens.value,
                 min_tokens      |-> min_tokens.value,
                 temperature     |-> temperature.value,
                 decoding_method |-> Upper(getenv_default(e, "WATSONX_DECODING_METHOD",
                                                          DefaultDecodingMethod))])

\* lines 138-174 of get_watsonx_config, on the values read from the environment
WatsonXConfigFrom(api_key, project_id, max_tokens, min_tokens, temperature, e) ==
    IF api_key = None \/ The(api_key) = <<>> \/ StartsWith(The(api_key), PlaceholderPrefix)
    THEN Raise("ConfigurationError", "API_KEY not found or contains placeholder value")
    ELSE IF project_id = None \/ The(project_id) = <<>>
            \/ StartsWith(The(project_id), PlaceholderPrefix)
    THEN Raise("ConfigurationError", "PROJECT_ID not found or contains placeholder value")
    ELSE IF ~max_tokens.ok \/ ~min_tokens.ok \/ ~temperature.ok
    THEN Raise("ConfigurationError", "Invalid numeric configuration value")
    ELSE Return([api_key         |-> The(api_key),
                 project_id      |-> The(project_id),
                 url             |-> getenv_default(e, "WATSONX_URL", "https://us-south.ml.cloud.ibm.com"),
                 model_type      |-> getenv_default(e, "WATSONX_MODEL_TYPE", "ibm/mpt-7b-instruct2"),
                 max_tokens      |-> max_tokens.value,
                 min_tokens      |-> min_tokens.value,
                 temperature     |-> temperature.value,
                 decoding_method |-> Upper(getenv_default(e, "WATSONX_DECODING_METHOD",
                                                          DefaultDecodingMethod))])

get_watsonx_config(e) ==
    WatsonXConfigFrom(OrOpt(getenv(e, "API_KEY"), getenv(e, "api_key")),
                      OrOpt(getenv(e, "PROJECT_ID"), getenv(e, "project_id")),
                      ParseInt(getenv_default(e, "WATSONX_MAX_TOKENS", DefaultMaxTokens)),
                      ParseInt(getenv_default(e, "WATSONX_MIN_TOKENS", DefaultMinTokens)),
                      ParseFloat(getenv_default(e, "WATSONX_TEMPERATURE", DefaultTemperature)),
                      e)

\* a get_stable_diffusion_config that defaults each number on its own
StableDiffusionConfigFrom_each_alone(steps, guidance, e) ==
    [model_id            |-> getenv_default(e, "SD_MODEL_ID", "runwayml/stable-diffusion-v1-5"),
     use_lora            |-> Lower(getenv_default(e, "SD_USE_LORA", TextTrue)) = TextTrue,
     lora_model_id       |-> getenv_default(e, "SD_LORA_MODEL_ID",
                                            "ProGamerGov/360-Diffusion-LoRA-sd-v1-5"),
     trigger_word        |-> getenv_default(e, "SD_TRIGGER_WORD", DefaultTriggerWord),
     num_inference_steps |-> IF steps.ok THEN steps.value ELSE 50,
     guidance_scale      |-> IF guidance.ok THEN guidance.value ELSE 75,
     device              |-> getenv_default(e, "SD_DEVICE", "cuda")]

\* lines 183-208 of get_stable_diffusion_config; steps and guidance are the
\* results of int() and float()
StableDiffusionConfigFrom(steps, guidance, e) ==
    [model_id            |-> getenv_default(e, "SD_MODEL_ID", "runwayml/stable-diffusion-v1-5"),
     use_lora            |-> Lower(getenv_default(e, "SD_USE_LORA", TextTrue)) = TextTrue,
     lora_model_id       |-> getenv_default(e, "SD_LORA_MODEL_ID",
                                            "ProGamerGov/360-Diffusion-LoRA-sd-v1-5"),
     trigger_word        |-> getenv_default(e, "SD_TRIGGER_WORD", DefaultTriggerWord),
     num_inference_steps |-> IF steps.ok /\ guidance.ok THEN steps.value ELSE 50,
     guidance_scale      |-> IF steps.ok /\ guidance.ok THEN guidance.value ELSE 75,
     device              |-> getenv_default(e, "SD_DEVICE", "cuda")]

get_stable_diffusion_config(e) ==
    StableDiffusionConfigFrom(
        ParseInt(getenv_default(e, "SD_NUM_INFERENCE_STEPS", DefaultNumInferenceSteps)),
        ParseFloat(getenv_default(e, "SD_GUIDANCE_SCALE", DefaultGuidanceScale)),
        e)

\* lines 228-242 of get_config: setLevel(log_level), then the two records
ApplicationConfigFrom(log_level, watsonx, e, id) ==
    IF log_level \notin LogLevelNames
    THEN Raise("ValueError", "Unknown level")
    ELSE IF watsonx.raised
    THEN watsonx
    ELSE Return([id               |-> id,
                 debug            |-> Lower(getenv_default(e, "DEBUG", TextFalse)) = TextTrue,
                 log_level        |-> log_level,
                 watsonx          |-> The(watsonx.value),
                 stable_diffusion |-> get_stable_diffusion_config(e)])

\* get_config(): a fresh ApplicationConfig; id is the identity of the new object
get_config(e, id) ==
    ApplicationConfigFrom(Upper(getenv_default(e, "LOG_LEVEL", TextINFO)),
                          get_watsonx_config(e), e, id)

\* a get_global_config that never finds the cache filled
CachedConfig_never(gc) == FALSE

\* get_global_config, line 256: is there a cached instance
CachedConfig(gc) == gc # None

\* line 257: the loaded configuration is cached only when get_config returned
Loaded(c) == [res |-> c, cache |-> IF c.raised THEN None ELSE c.value]

\* get_global_config() run without interruption: the cached instance, or a
\* load.  cache is the value of _global_config afterwards.
get_global_config(gc, e, id) ==
    IF CachedConfig(gc)
    THEN [res |-> Return(The(gc)), cache |-> gc]
    ELSE Loaded(get_config(e, id))

(***************************************************************************)
(* generate_environment.py                                                 *)
(***************************************************************************)
TextSample == <<"s", "a", "m", "p", "l", "e">>

TextGreedy == <<"g", "r", "e", "e", "d", "y">>

\* keys of decoding_method_map
DecodingMethods == {TextSample, TextGreedy}

\* parameter checks that test max_tokens before comparing min_tokens with it
get_model_validation_max_first(max_tokens, min_tokens, decoding, temperature) ==
    IF ~(0 <= temperature /\ temperature <= 10)
    THEN Some(Exc("ValueError", <<"Temperature must be between 0.0 and 1.0, got", temperature>>))
    ELSE IF max_tokens <= 0
    THEN Some(Exc("ValueError", <<"max_tokens must be positive, got", max_tokens>>))
    ELSE IF min_tokens > max_tokens
    THEN Some(Exc("ValueError", <<"min_tokens cannot be greater than max_tokens",
                                  min_tokens, max_tokens>>))
    ELSE IF Lower(decoding) \notin DecodingMethods
    THEN Some(Exc("ValueError", <<"Invalid decoding method", decoding>>))
    ELSE None

\* The parameter checks of get_model, in the order of the code: the
\* ValueError raised, or None when every check passes.
\* The messages are f-strings: the fixed text and the values put into it.
get_model_validation(max_tokens, min_tokens, decoding, temperature) ==
    IF ~(0 <= temperature /\ temperature <= 10)
    THEN Some(Exc("ValueError", <<"Temperature must be between 0.0 and 1.0, got", temperature>>))
    ELSE IF min_tokens > max_tokens
    THEN Some(Exc("ValueError", <<"min_tokens cannot be greater than max_tokens",
                                  min_tokens, max_tokens>>))
    ELSE IF max_tokens <= 0
    THEN Some(Exc("ValueError", <<"max_tokens must be positive, got", max_tokens>>))
    ELSE IF Lower(decoding) \notin DecodingMethods
    THEN Some(Exc("ValueError", <<"Invalid decoding method", decoding>>))
    ELSE None

\* a get_model that builds the Model before it looks at the checks
ModelOrError_ctor_first(invalid, model_type, max_tokens, min_tokens, decoding, temperature, api_key, project_id, url, ctor_raises) ==
    IF ctor_raises
    THEN [res |-> Raise("WatsonXModelError", "Failed to create WatsonX.ai model"),
          constructed |-> 1]
    ELSE IF invalid # None
    THEN [res |-> [raised |-> TRUE, exc |-> The(invalid), value |-> None],
          constructed |-> 1]
    ELSE [res |-> Return([model_id    |-> model_type,
                          params      |-> [max_new_tokens  |-> max_tokens,
                                           min_new_tokens  |-> min_tokens,
                                           decoding_method |-> Lower(decoding),
                                           temperature     |-> temperature],
                          credentials |-> [apikey |-> api_key, url |-> url],
                          project_id  |-> project_id]),
          constructed |-> 1]

\* lines 116-146 of get_model once the parameters were checked; invalid is
\* the result of the checks
ModelOrError(invalid, model_type, max_tokens, min_tokens, decoding, temperature, api_key, project_id, url, ctor_raises) ==
    IF invalid # None
    THEN [res |-> [raised |-> TRUE, exc |-> The(invalid), value |-> None],
          constructed |-> 0]
    ELSE IF ctor_raises
    THEN [res |-> Raise("WatsonXModelError", "Failed to create WatsonX.ai model"),
          constructed |-> 1]
    ELSE [res |-> Return([model_id    |-> model_type,
                          params      |-> [max_new_tokens  |-> max_tokens,
                                           min_new_tokens  |-> min_tokens,
                                           decoding_method |-> Lower(decoding),
                                           temperature     |-> temperature],
                          credentials |-> [apikey |-> api_key, url |-> url],
                          project_id  |-> project_id]),
          constructed |-> 1]

\* get_model: ctor_raises says whether the backend's Model constructor
\* raises.  constructed counts the Model(...) invocations.
get_model(model_type, max_tokens, min_tokens, decoding, temperature, api_key, project_id, url, ctor_raises) ==
    ModelOrError(get_model_validation(max_tokens, min_tokens, decoding, temperature),
                 model_type, max_tokens, min_tokens, decoding, temperature,
                 api_key, project_id, url, ctor_raises)

\* an extraction that returns the generated text as it came
GenerateDescription_no_strip(m, be) ==
    IF m.res.raised
    THEN [res |-> m.res, constructed |-> m.constructed, generate_calls |-> 0,
          model |-> None]
    ELSE IF be.generate_raises
    THEN [res |-> Raise("Exception", "backend call failed"),
          constructed |-> 1, generate_calls |-> 1, model |-> m.res.value]
    ELSE IF \/ be.response = None
            \/ "results" \notin DOMAIN The(be.response)
            \/ The(be.response).results = <<>>
    THEN [res |-> Raise("WatsonXModelError", "Model returned empty or invalid response"),
          constructed |-> 1, generate_calls |-> 1, model |-> m.res.value]
    ELSE IF "generated_text" \notin DOMAIN The(be.response).results[1]
    THEN [res |-> Raise("KeyError", "generated_text"),
          constructed |-> 1, generate_calls |-> 1, model |-> m.res.value]
    ELSE [res |-> Return(The(be.response).results[1].generated_text),
          constructed |-> 1, generate_calls |-> 1, model |-> m.res.value]

\* lines 212-235: the backend call on the model m and the extraction of the text
GenerateDescription(m, be) ==
    IF m.res.raised
    THEN [res |-> m.res, constructed |-> m.constructed, generate_calls |-> 0,
          model |-> None]
    ELSE IF be.generate_raises
    THEN [res |-> Raise("Exception", "backend call failed"),
          constructed |-> 1, generate_calls |-> 1, model |-> m.res.value]
    ELSE IF \/ be.response = None
            \/ "results" \notin DOMAIN The(be.response)
            \/ The(be.response).results = <<>>
    THEN [res |-> Raise("WatsonXModelError", "Model returned empty or invalid response"),
          constructed |-> 1, generate_calls |-> 1, model |-> m.res.value]
    ELSE IF "generated_text" \notin DOMAIN The(be.response).results[1]
    THEN [res |-> Raise("KeyError", "generated_text"),
          constructed |-> 1, generate_calls |-> 1, model |-> m.res.value]
    ELSE [res |-> Return(Strip(The(be.response).results[1].generated_text)),
          constructed |-> 1, generate_calls |-> 1, model |-> m.res.value]

\* the try body of generate_environment after the configuration is loaded
generate_environment_body(prompt, model_type, max_tokens, min_tokens, decoding, temperature, config, be) ==
    GenerateDescription(
        get_model(Or(model_type, "", config.watsonx.model_type),
                  Or(max_tokens, 0, config.watsonx.max_tokens),
                  Or(min_tokens, 0, config.watsonx.min_tokens),
                  Or(decoding, <<>>, config.watsonx.decoding_method),
                  Or(temperature, 0, config.watsonx.temperature),
                  config.watsonx.api_key, config.watsonx.project_id,
                  config.watsonx.url, be.ctor_raises),
        be)

\* the except clauses of generate_environment: ConfigurationError and
\* WatsonXModelError are re-raised, anything else becomes WatsonXModelError
generate_environment_except(res) ==
    IF res.raised /\ res.exc.type \notin {"ConfigurationError", "WatsonXModelError"}
    THEN Raise("WatsonXModelError", "Unexpected error during environment generation")
    ELSE res

\* what generate_environment did, given the outcome b of its try body
EnvironmentOutcome(b, cache) ==
    [res |-> generate_environment_except(b.res), cache |-> cache,
     config_calls |-> 1, constructed |-> b.constructed,
     generate_calls |-> b.generate_calls, model |-> b.model]

\* lines 186-248, c being the outcome of get_global_config
EnvironmentWithConfig(c, prompt, model_type, max_tokens, min_tokens, decoding, temperature, be) ==
    IF c.res.raised
    THEN [res |-> generate_environment_except(c.res), cache |-> c.cache,
          config_calls |-> 1, constructed |-> 0, generate_calls |-> 0,
          model |-> None]
    ELSE EnvironmentOutcome(
             generate_environment_body(prompt, model_type, max_tokens, min_tokens,
                                       decoding, temperature, The(c.res.value), be),
             c.cache)

\* a generate_environment whose prompt check sits inside the try block, so
\* that its ValueError is converted like any other exception
generate_environment_check_in_try(prompt, model_type, max_tokens, min_tokens, decoding, temperature, gc, e, id, be) ==
    IF prompt = None \/ The(prompt) = <<>> \/ Strip(The(prompt)) = <<>>
    THEN [res |-> generate_environment_except(Raise("ValueError", "Prompt cannot be empty")),
          cache |-> gc,
          config_calls |-> 0, constructed |-> 0, generate_calls |-> 0, model |-> None]
    ELSE EnvironmentWithConfig(get_global_config(gc, e, id), The(prompt), model_type,
                               max_tokens, min_tokens, decoding, temperature, be)

\* generate_environment(prompt, model_type, max_tokens, min_tokens, decoding,
\* temperature) run with _global_config = gc, environment e and backend
\* behaviour be; id is the identity a newly loaded configuration would get.
generate_environment(prompt, model_type, max_tokens, min_tokens, decoding, temperature, gc, e, id, be) ==
    IF prompt = None \/ The(prompt) = <<>> \/ Strip(The(prompt)) = <<>>
    THEN [res |-> Raise("ValueError", "Prompt cannot be empty"), cache |-> gc,
          config_calls |-> 0, constructed |-> 0, generate_calls |-> 0, model |-> None]
    ELSE EnvironmentWithConfig(get_global_config(gc, e, id), The(prompt), model_type,
                               max_tokens, min_tokens, decoding, temperature, be)

(***************************************************************************)
(* Inputs                                                                  *)
(***************************************************************************)
TextSea == <<"s", "e", "a">>

\* prompts a caller may pass
Prompts == {None, Some(<<>>), Some(<<" ", "\t">>), Some(TextSea)}

EnrichmentTypes == {"Standard", "Detailed", "Cinematic"}

CustomData == {None, Some("indoor")}

\* num_inference_steps overrides
StepOverrides == {None, Some(0), Some(20)}

\* guidance_scale overrides, in tenths
GuidanceOverrides == {None, Some(0), Some(90)}

\* The environment the process is started with: credentials set, every
\* optional setting left to its default.
BaseEnv ==
    [API_KEY |-> Some(<<"k", "1">>), api_key |-> None,
     PROJECT_ID |-> Some(<<"p", "1">>), project_id |-> None,
     WATSONX_URL |-> None, WATSONX_MODEL_TYPE |-> None,
     WATSONX_MAX_TOKENS |-> None, WATSONX_MIN_TOKENS |-> None,
     WATSONX_TEMPERATURE |-> None, WATSONX_DECODING_METHOD |-> None,
     SD_MODEL_ID |-> None, SD_USE_LORA |-> None, SD_LORA_MODEL_ID |-> None,
     SD_TRIGGER_WORD |-> None, SD_NUM_INFERENCE_STEPS |-> None,
     SD_GUIDANCE_SCALE |-> None, SD_DEVICE |-> None,
     DEBUG |-> None, LOG_LEVEL |-> None]

\* single settings an operator may change: <<variable, new value>>
EnvEdits ==
    { <<"API_KEY", None>>,
      <<"LOG_LEVEL", Some(<<"v", "e", "r", "b", "o", "s", "e">>)>>,
      <<"WATSONX_MAX_TOKENS", Some(<<"a", "b", "c">>)>>,
      <<"WATSONX_MIN_TOKENS", Some(<<"3", "0", "0">>)>>,
      <<"WATSONX_TEMPERATURE", Some(<<"1", ".", "5">>)>>,
      <<"SD_USE_LORA", Some(<<"F", "a", "l", "s", "e">>)>>,
      <<"SD_TRIGGER_WORD", Some(<<>>)>>,
      <<"SD_NUM_INFERENCE_STEPS", Some(<<" ", "3", "0">>)>>,
      <<"SD_NUM_INFERENCE_STEPS", Some(<<"0">>)>> }

\* the environments of the model: BaseEnv with at most one setting changed
EnvSet == {BaseEnv} \cup {[BaseEnv EXCEPT ![ed[1]] = ed[2]] : ed \in EnvEdits}

\* behaviours of the enrichment backend (Model constructor and Model.generate)
EnrichmentResponses ==
    { None,
      Some([model_id |-> "m"]),
      Some([results |-> <<>>]),
      Some([results |-> <<[stop_reason |-> "eos"]>>]),
      Some([results |-> <<[generated_text |-> <<" ", "d", "u", "n", "e", "\n">>]>>]),
      Some([results |-> <<[generated_text |-> <<" ">>]>>]),
      Some([results |-> <<[generated_text |-> <<>>]>>]) }

EnrichmentBehaviours ==
    [ctor_raises : BOOLEAN, generate_raises : BOOLEAN, response : EnrichmentResponses]

\* images the diffusion backend may produce (PIL size)
Images == {[size |-> <<512, 512>>], [size |-> <<1024, 512>>]}

\* behaviours of a pipeline invocation: it raises, or returns a result
PipelineResults ==
    {None} \cup {Some([images |-> <<>>])} \cup {Some([images |-> <<im>>]) : im \in Images}
        \cup {Some([images |-> <<[size |-> <<1024, 512>>], [size |-> <<512, 512>>]>>])}

PipelineBehaviours ==
    {[raises |-> TRUE, result |-> None]} \cup {[raises |-> FALSE, result |-> x] : x \in PipelineResults}

\* behaviours of pipeline construction
BuildBehaviours ==
    [cuda_available : BOOLEAN, from_pretrained_raises : BOOLEAN,
     load_lora_raises : BOOLEAN, to_raises : BOOLEAN]

(***************************************************************************)
(* app.py                                                                  *)
(***************************************************************************)
\* a caller that is not inside any call
IdleReq ==
    [op |-> "none", pc |-> "idle",
     prompt |-> None, arg_steps |-> None, arg_guidance |-> None,
     config |-> None, num_inference_steps |-> None, guidance_scale |-> None,
     enrichment |-> "none", enrich_exc |-> None, enriched_prompt |-> None,
     status_msg |-> "",
     config_calls |-> 0, get_config_calls |-> 0, model_generate_calls |-> 0,
     get_pipeline_calls |-> 0, constructions |-> 0, pipeline_calls |-> 0,
     pipeline |-> None, pipeline_args |-> None, pipeline_out |-> None,
     result |-> None, raised |-> None,
     args |-> None, backend |-> None, model_ctor_calls |-> 0, generated_text |-> None,
     load_lora_calls |-> 0, load_lora_raised |-> FALSE, to_raised |-> FALSE,
     launched |-> FALSE, caught |-> None, exit_code |-> None]

\* Status messages.  indicator stands for the leading emoji of the text:
\* "ERROR" for the cross mark, "SUCCESS" for the check mark, "WARNING" for the
\* warning sign; head is the fixed part and detail the str(e) part.
Message(indicator, head, detail) ==
    [indicator |-> indicator, head |-> head, detail |-> detail]

\* a success message that reads the size as (height, width)
success_msg_height_first(image, num_inference_steps, guidance_scale) ==
    [indicator |-> "SUCCESS", head |-> "Success! Generated 360 image",
     resolution |-> <<image.size[2], "x", image.size[1]>>,
     inference_steps |-> num_inference_steps,
     guidance |-> guidance_scale]

\* lines 200-207: the image's size is (width, height)
success_msg(image, num_inference_steps, guidance_scale) ==
    [indicator |-> "SUCCESS", head |-> "Success! Generated 360 image",
     resolution |-> <<image.size[1], "x", image.size[2]>>,
     inference_steps |-> num_inference_steps,
     guidance |-> guidance_scale]

\* the status_msg assignments of generate_360_image
StatusEnriching == "Enriching prompt with WatsonX.ai..."

StatusWarning == "Warning: Could not enrich prompt, using original. Proceeding with generation..."

StatusGenerating == "Generating 360 image with Stable Diffusion..."

\* except clauses whose image generation message lost its error mark
generate_360_image_except_unmarked(exc) ==
    IF exc.type = "ConfigurationError"
    THEN [image |-> None, message |-> Message("ERROR", "Configuration Error", exc.msg)]
    ELSE IF exc.type = "ImageGenerationError"
    THEN [image |-> None, message |-> Message("", "Image Generation Error", exc.msg)]
    ELSE [image |-> None, message |-> Message("ERROR", "Unexpected Error", exc.msg)]

\* the except clauses of generate_360_image: every exception becomes
\* (None, error message)
generate_360_image_except(exc) ==
    IF exc.type = "ConfigurationError"
    THEN [image |-> None, message |-> Message("ERROR", "Configuration Error", exc.msg)]
    ELSE IF exc.type = "ImageGenerationError"
    THEN [image |-> None, message |-> Message("ERROR", "Image Generation Error", exc.msg)]
    ELSE [image |-> None, message |-> Message("ERROR", "Unexpected Error", exc.msg)]

\* except clauses of app.main that take a pipeline failure for a clean exit
main_except_pipeline_ok(exc) ==
    IF exc.type = "ConfigurationError" THEN 1
    ELSE IF exc.type = "ImageGenerationError" THEN 0
    ELSE IF exc.type = "KeyboardInterrupt" THEN 0
    ELSE 1

\* the except clauses of app.main (lines 396-414): the code given to sys.exit
main_except(exc) ==
    IF exc.type = "ConfigurationError" THEN 1
    ELSE IF exc.type = "ImageGenerationError" THEN 1
    ELSE IF exc.type = "KeyboardInterrupt" THEN 0
    ELSE 1

\* the except clauses of generate_environment.main (lines 284-302)
generate_environment_main_except(exc) ==
    IF exc.type = "ConfigurationError" THEN 1
    ELSE IF exc.type = "WatsonXModelError" THEN 1
    ELSE IF exc.type = "KeyboardInterrupt" THEN 0
    ELSE 1

\* sys.exit(code) in an entry point, caught being the exception handled
Exit(rq, code, caught) ==
    [rq EXCEPT !.pc = "done", !.exit_code = Some(code), !.caught = caught]

\* a generate_360_image without the final  except Exception  clause
Fail_no_catch_all(rq, exc) ==
    IF rq.op = "generate_360_image"
          /\ exc.type \in {"ConfigurationError", "ImageGenerationError"}
    THEN [rq EXCEPT !.pc = "done", !.result = Some(generate_360_image_except(exc))]
    ELSE [rq EXCEPT !.pc = "done", !.raised = Some(exc)]

\* how a call of r ends when exc is raised in it: generate_360_image maps it
\* to a result, app.main to an exit code, get_pipeline lets it reach its caller
Fail(rq, exc) ==
    IF rq.op = "generate_360_image"
    THEN [rq EXCEPT !.pc = "done", !.result = Some(generate_360_image_except(exc))]
    ELSE IF rq.op = "main"
    THEN Exit(rq, main_except(exc), Some(exc))
    ELSE [rq EXCEPT !.pc = "done", !.raised = Some(exc)]

\* the prompt check without the strip() test
PromptIsEmpty_no_strip(prompt) == prompt = None \/ The(prompt) = <<>>

\* line 148:  not prompt or not prompt.strip()
PromptIsEmpty(prompt) == prompt = None \/ The(prompt) = <<>> \/ Strip(The(prompt)) = <<>>

\* no other caller is inside a call (requests are served one at a time)
OneAtATime == \A q \in Reqs : req[q].pc = "idle"

\* generate_360_image is entered: the prompt check (lines 146-153)
Call_generate_360_image(r, prompt, enrichment_type, custom_data, num_inference_steps, guidance_scale) ==
    /\ req[r].pc = "idle"
    /\ LET rq == [IdleReq EXCEPT !.op = "generate_360_image", !.prompt = prompt,
                                 !.arg_steps = num_inference_steps,
                                 !.arg_guidance = guidance_scale]
       IN  IF PromptIsEmpty(prompt)
           THEN req' = [req EXCEPT ![r] =
                          [rq EXCEPT !.pc = "done",
                                     !.result = Some([image |-> None,
                                                      message |-> Message("ERROR", "Error",
                                                          "Prompt cannot be empty")])]]
           ELSE req' = [req EXCEPT ![r] = [rq EXCEPT !.pc = "get_global_config"]]
    /\ UNCHANGED <<env, _global_config, config_objects, _pipeline, from_pretrained_calls>>

\* get_global_config returns config to the call rq: generate_360_image goes
\* on with lines 157-165 (the overrides), app.main with get_pipeline (line 381)
WithConfig(rq, config) ==
    LET sd_config == config.stable_diffusion
    IN  IF rq.op = "main"
        THEN [rq EXCEPT !.pc = "get_pipeline", !.config = Some(config)]
        ELSE
        [rq EXCEPT !.pc = "generate_environment",
                   !.config = Some(config),
                   !.num_inference_steps =
                       Some(Or(rq.arg_steps, 0, sd_config.num_inference_steps)),
                   !.guidance_scale =
                       Some(Or(rq.arg_guidance, 0, sd_config.guidance_scale)),
                   !.status_msg = StatusEnriching]

\* get_global_config, called at line 156: the test of the cache
GetGlobalConfig(r) ==
    /\ req[r].pc = "get_global_config"
    /\ IF CachedConfig(_global_config)
       THEN req' = [req EXCEPT ![r] =
                      WithConfig([req[r] EXCEPT !.config_calls = @ + 1], The(_global_config))]
       ELSE req' = [req EXCEPT ![r] = [@ EXCEPT !.pc = "get_config", !.config_calls = @ + 1]]
    /\ UNCHANGED <<env, _global_config, config_objects, _pipeline, from_pretrained_calls>>

\* line 257 in the call of r, c being what get_config did
StoreConfig(r, c) ==
    IF c.raised
    THEN /\ req' = [req EXCEPT ![r] = Fail([@ EXCEPT !.get_config_calls = @ + 1], c.exc)]
         /\ UNCHANGED <<_global_config, config_objects>>
    ELSE /\ _global_config' = c.value
         /\ config_objects' = config_objects + 1
         /\ req' = [req EXCEPT ![r] =
                       WithConfig([@ EXCEPT !.get_config_calls = @ + 1], The(c.value))]

\* get_global_config after an empty cache was seen: _global_config = get_config()
GetConfig(r) ==
    /\ req[r].pc = "get_config"
    /\ StoreConfig(r, get_config(env, config_objects + 1))
    /\ UNCHANGED <<env, _pipeline, from_pretrained_calls>>

\* a trigger word prepended whether or not the LoRA is in use
AddTriggerWord_always(sd_config, enriched_prompt) ==
    IF sd_config.trigger_word # <<>>
    THEN sd_config.trigger_word \o <<" ">> \o enriched_prompt
    ELSE enriched_prompt

\* lines 178-181: the LoRA trigger word
AddTriggerWord(sd_config, enriched_prompt) ==
    IF sd_config.use_lora /\ sd_config.trigger_word # <<>>
    THEN sd_config.trigger_word \o <<" ">> \o enriched_prompt
    ELSE enriched_prompt

\* an except clause that ends the request on WatsonXModelError as well
OnEnrichmentError_abort(rq, exc) ==
    Fail([rq EXCEPT !.enrichment = exc.type, !.enrich_exc = Some(exc)], exc)

\* lines 170-185 for a request rq in which generate_environment raised exc:
\* WatsonXModelError is absorbed and the original prompt is used, any other
\* exception ends the request
OnEnrichmentError(rq, exc) ==
    IF exc.type = "WatsonXModelError"
    THEN [rq EXCEPT !.pc = "get_pipeline",
                    !.enrichment = "WatsonXModelError",
                    !.enrich_exc = Some(exc),
                    !.enriched_prompt =
                        Some(AddTriggerWord(The(rq.config).stable_diffusion, The(rq.prompt))),
                    !.status_msg = StatusGenerating]
    ELSE Fail([rq EXCEPT !.enrichment = exc.type, !.enrich_exc = Some(exc)], exc)

\* the first generated text of the response the backend sent, if generate was
\* called in g and answered with one (generate_environment.py, lines 215-229)
ReceivedText(g, be) ==
    IF /\ g.generate_calls = 1
       /\ ~be.generate_raises
       /\ be.response # None
       /\ "results" \in DOMAIN The(be.response)
       /\ The(be.response).results # <<>>
       /\ "generated_text" \in DOMAIN The(be.response).results[1]
    THEN Some(The(be.response).results[1].generated_text)
    ELSE None

\* the call rq with what the enrichment backend was asked and what it sent
Enriched(rq, g, be) ==
    [rq EXCEPT !.model_generate_calls = @ + g.generate_calls,
               !.generated_text = ReceivedText(g, be)]

\* an enrichment step that takes an empty description for a failed enrichment
AfterEnrichment_blank_is_failure(rq, g, be) ==
    IF ~g.res.raised /\ The(g.res.value) # <<>>
    THEN [Enriched(rq, g, be) EXCEPT
                    !.pc = "get_pipeline",
                    !.enrichment = "ok",
                    !.enriched_prompt =
                        Some(AddTriggerWord(The(rq.config).stable_diffusion,
                                            The(g.res.value))),
                    !.status_msg = StatusGenerating]
    ELSE IF ~g.res.raised
    THEN OnEnrichmentError(Enriched(rq, g, be),
                           Exc("WatsonXModelError", "Model returned empty or invalid response"))
    ELSE OnEnrichmentError(Enriched(rq, g, be), g.res.exc)

\* lines 167-185 in the call rq, g being what generate_environment did with
\* the backend behaviour be; generated_text keeps the text the backend sent
AfterEnrichment(rq, g, be) ==
    IF ~g.res.raised
    THEN [Enriched(rq, g, be) EXCEPT
                    !.pc = "get_pipeline",
                    !.enrichment = "ok",
                    !.enriched_prompt =
                        Some(AddTriggerWord(The(rq.config).stable_diffusion,
                                            The(g.res.value))),
                    !.status_msg = StatusGenerating]
    ELSE OnEnrichmentError(Enriched(rq, g, be), g.res.exc)

\* the effect of the enrichment call of r on the globals and on its locals
EnrichStep(r, g, be) ==
    /\ _global_config' = g.cache
    /\ config_objects' = IF g.cache # _global_config THEN config_objects + 1
                         ELSE config_objects
    /\ req' = [req EXCEPT ![r] = AfterEnrichment(@, g, be)]

\* lines 167-185: the enrichment call, its fallback and the trigger word
Enrich(r, be) ==
    /\ req[r].pc = "generate_environment"
    /\ EnrichStep(r, generate_environment(req[r].prompt, None, None, None, None, None,
                                          _global_config, env, config_objects + 1, be),
                  be)
    /\ UNCHANGED <<env, _pipeline, from_pretrained_calls>>

\* a get_pipeline that returns the instance another caller has cached meanwhile
PipelineAcquired_first_wins(rq, pipeline) ==
    IF rq.op = "generate_360_image"
    THEN [rq EXCEPT !.pc = "pipeline",
                    !.pipeline = IF _pipeline # None THEN _pipeline ELSE Some(pipeline)]
    ELSE IF rq.op = "main"
    THEN [rq EXCEPT !.pc = "launch",
                    !.pipeline = IF _pipeline # None THEN _pipeline ELSE Some(pipeline)]
    ELSE [rq EXCEPT !.pc = "done",
                    !.pipeline = IF _pipeline # None THEN _pipeline ELSE Some(pipeline)]

\* get_pipeline returns pipeline to the call of r
PipelineAcquired(rq, pipeline) ==
    IF rq.op = "generate_360_image"
    THEN [rq EXCEPT !.pc = "pipeline", !.pipeline = Some(pipeline)]
    ELSE IF rq.op = "main"
    THEN [rq EXCEPT !.pc = "launch", !.pipeline = Some(pipeline)]
    ELSE [rq EXCEPT !.pc = "done", !.pipeline = Some(pipeline)]

\* a get_pipeline that never finds the cache filled
CachedPipeline_never(p) == FALSE

\* get_pipeline, line 63: is there a cached pipeline
CachedPipeline(p) == p # None

\* get_pipeline is called directly (as main does at start-up)
Call_get_pipeline(r) ==
    /\ req[r].pc = "idle"
    /\ req' = [req EXCEPT ![r] = [IdleReq EXCEPT !.op = "get_pipeline", !.pc = "get_pipeline"]]
    /\ UNCHANGED <<env, _global_config, config_objects, _pipeline, from_pretrained_calls>>

\* get_pipeline, lines 61-64: the test of the cache
GetPipeline(r) ==
    /\ req[r].pc = "get_pipeline"
    /\ IF CachedPipeline(_pipeline)
       THEN req' = [req EXCEPT ![r] =
                      PipelineAcquired([@ EXCEPT !.get_pipeline_calls = @ + 1], The(_pipeline))]
       ELSE req' = [req EXCEPT ![r] =
                      [@ EXCEPT !.pc = "from_pretrained", !.get_pipeline_calls = @ + 1]]
    /\ UNCHANGED <<env, _global_config, config_objects, _pipeline, from_pretrained_calls>>

\* the device the pipeline is moved to (lines 73-77)
Device(sd_config, cuda_available) ==
    IF sd_config.device = "cuda" /\ ~cuda_available THEN "cpu" ELSE sd_config.device

\* the pipeline object built at lines 84-106
NewPipeline(sd_config, bb, id) ==
    [id |-> id,
     model_id |-> sd_config.model_id,
     lora_loaded |-> /\ sd_config.use_lora
                     /\ sd_config.lora_model_id # ""
                     /\ ~bb.load_lora_raises,
     device |-> Device(sd_config, bb.cuda_available),
     attention_slicing |-> Device(sd_config, bb.cuda_available) = "cuda"]

\* the exception get_pipeline raises for any failure of its try block
PipelineInitError ==
    Exc("ImageGenerationError", "Failed to initialize Stable Diffusion pipeline")

\* line 92: load_lora_weights is called when the adapter is enabled and named
LoraEnabled(sd_config) == sd_config.use_lora /\ sd_config.lora_model_id # ""

\* a construction in which a failing load_lora_weights is not caught
ConstructionRaises_lora_fatal(sd_config, bb) ==
    \/ bb.from_pretrained_raises
    \/ LoraEnabled(sd_config) /\ bb.load_lora_raises
    \/ bb.to_raises

\* lines 84-106: the calls whose exception leaves the try block; the one of
\* load_lora_weights is caught at lines 97-99
ConstructionRaises(sd_config, bb) == bb.from_pretrained_raises \/ bb.to_raises

\* what the call rq did at lines 84-102: the calls made and the ones that raised
Constructing(rq, bb, sd_config) ==
    [rq EXCEPT !.constructions = @ + 1,
               !.load_lora_calls =
                   IF ~bb.from_pretrained_raises /\ LoraEnabled(sd_config) THEN @ + 1 ELSE @,
               !.load_lora_raised =
                   ~bb.from_pretrained_raises /\ LoraEnabled(sd_config) /\ bb.load_lora_raises,
               !.to_raised = ~bb.from_pretrained_raises /\ bb.to_raises]

\* a construction that stores the pipeline before moving it to the device
Construct_assigns_first(r, bb, sd_config, pipeline) ==
    /\ from_pretrained_calls < MaxConstruct
    /\ from_pretrained_calls' = from_pretrained_calls + 1
    /\ _pipeline' = IF bb.from_pretrained_raises THEN _pipeline ELSE Some(pipeline)
    /\ IF ConstructionRaises(sd_config, bb)
       THEN req' = [req EXCEPT ![r] = Fail(Constructing(@, bb, sd_config), PipelineInitError)]
       ELSE req' = [req EXCEPT ![r] =
                      PipelineAcquired(Constructing(@, bb, sd_config), pipeline)]

\* lines 84-117 in the call of r: from_pretrained and what follows it
Construct(r, bb, sd_config, pipeline) ==
    /\ from_pretrained_calls < MaxConstruct
    /\ from_pretrained_calls' = from_pretrained_calls + 1
    /\ IF ConstructionRaises(sd_config, bb)
       THEN /\ req' = [req EXCEPT ![r] =
                          Fail(Constructing(@, bb, sd_config), PipelineInitError)]
            /\ UNCHANGED _pipeline
       ELSE /\ _pipeline' = Some(pipeline)
            /\ req' = [req EXCEPT ![r] =
                          PipelineAcquired(Constructing(@, bb, sd_config), pipeline)]

\* lines 66-117 in the call of r, c being what get_global_config did
BuildStep(r, bb, c) ==
    /\ _global_config' = c.cache
    /\ config_objects' = IF c.cache # _global_config THEN config_objects + 1
                         ELSE config_objects
    /\ IF c.res.raised
       THEN /\ req' = [req EXCEPT ![r] = Fail(@, PipelineInitError)]
            /\ UNCHANGED <<_pipeline, from_pretrained_calls>>
       ELSE Construct(r, bb, The(c.res.value).stable_diffusion,
                      NewPipeline(The(c.res.value).stable_diffusion, bb,
                                  from_pretrained_calls + 1))

\* get_pipeline, lines 66-117: construction after an empty cache was seen
BuildPipeline(r, bb) ==
    /\ req[r].pc = "from_pretrained"
    /\ BuildStep(r, bb, get_global_config(_global_config, env, config_objects + 1))
    /\ UNCHANGED env

\* a pipeline invocation that is tried a second time after it raised
Generate_retry(r, pb) ==
    /\ req[r].pc = "pipeline"
    /\ LET rq == [req[r] EXCEPT !.pipeline_calls = @ + 1,
                                !.pipeline_out = Some(pb),
                                !.pipeline_args =
                                    Some([prompt |-> The(req[r].enriched_prompt),
                                          num_inference_steps |-> The(req[r].num_inference_steps),
                                          guidance_scale |-> The(req[r].guidance_scale)])]
       IN  IF pb.raises /\ req[r].pipeline_calls = 0
           THEN req' = [req EXCEPT ![r] = rq]
           ELSE IF pb.raises
           THEN req' = [req EXCEPT ![r] = Fail(rq, Exc("RuntimeError", "pipeline failed"))]
           ELSE IF pb.result = None \/ The(pb.result).images = <<>>
           THEN req' = [req EXCEPT ![r] =
                          Fail(rq, Exc("ImageGenerationError", "Pipeline returned no images"))]
           ELSE LET image == The(pb.result).images[1]
                IN  req' = [req EXCEPT ![r] =
                              [rq EXCEPT !.pc = "done",
                                         !.result =
                                             Some([image |-> Some(image),
                                                   message |-> success_msg(image,
                                                       The(rq.num_inference_steps),
                                                       The(rq.guidance_scale))])]]
    /\ UNCHANGED <<env, _global_config, config_objects, _pipeline, from_pretrained_calls>>

\* lines 190-211: the pipeline invocation and the result
Generate(r, pb) ==
    /\ req[r].pc = "pipeline"
    /\ LET rq == [req[r] EXCEPT !.pipeline_calls = @ + 1,
                                !.pipeline_out = Some(pb),
                                !.pipeline_args =
                                    Some([prompt |-> The(req[r].enriched_prompt),
                                          num_inference_steps |-> The(req[r].num_inference_steps),
                                          guidance_scale |-> The(req[r].guidance_scale)])]
       IN  IF pb.raises
           THEN req' = [req EXCEPT ![r] = Fail(rq, Exc("RuntimeError", "pipeline failed"))]
           ELSE IF pb.result = None \/ The(pb.result).images = <<>>
           THEN req' = [req EXCEPT ![r] =
                          Fail(rq, Exc("ImageGenerationError", "Pipeline returned no images"))]
           ELSE LET image == The(pb.result).images[1]
                IN  req' = [req EXCEPT ![r] =
                              [rq EXCEPT !.pc = "done",
                                         !.result =
                                             Some([image |-> Some(image),
                                                   message |-> success_msg(image,
                                                       The(rq.num_inference_steps),
                                                       The(rq.guidance_scale))])]]
    /\ UNCHANGED <<env, _global_config, config_objects, _pipeline, from_pretrained_calls>>

\* the caller takes the result (or the exception) and is free for a next call
Finish(r) ==
    /\ req[r].pc = "done"
    /\ req' = [req EXCEPT ![r] = IdleReq]
    /\ UNCHANGED <<env, _global_config, config_objects, _pipeline, from_pretrained_calls>>

\* the operator changes the environment of the running process
SetEnv(e) ==
    /\ e # env
    /\ env' = e
    /\ UNCHANGED <<_global_config, config_objects, _pipeline, from_pretrained_calls, req>>

(***************************************************************************)
(* The enrichment client called directly                                   *)
(***************************************************************************)
\* arguments a caller of get_model may pass (temperatures in tenths)
ModelTypes == {"ibm/mpt-7b-instruct2", "google/flan-ul2"}

MaxTokenArgs == {250, 0}

MinTokenArgs == {150, 300, 0}

DecodingArgs == {TextSample, <<"G", "R", "E", "E", "D", "Y">>, <<"b", "e", "a", "m">>}

TemperatureArgs == {0 - 1, 0, 7, 10, 15}

ApiKeyArgs == {<<"k", "1">>, <<"r", "e", "v", "o", "k", "e", "d">>}

\* how a direct get_model call of rq ends, m being what get_model did
GetModelDone(rq, m) ==
    [rq EXCEPT !.pc = "done",
               !.model_ctor_calls = m.constructed,
               !.result = m.res.value,
               !.raised = IF m.res.raised THEN Some(m.res.exc) ELSE None]

\* get_model is called by r (lines 49-146)
Call_get_model(r, model_type, max_tokens, min_tokens, decoding, temperature, api_key, project_id, url, ctor_raises) ==
    /\ req[r].pc = "idle"
    /\ req' = [req EXCEPT ![r] =
                  GetModelDone([IdleReq EXCEPT !.op = "get_model",
                                               !.args = Some([model_type  |-> model_type,
                                                              max_tokens  |-> max_tokens,
                                                              min_tokens  |-> min_tokens,
                                                              decoding    |-> decoding,
                                                              temperature |-> temperature,
                                                              api_key     |-> api_key,
                                                              project_id  |-> project_id,
                                                              url         |-> url]),
                                               !.backend = Some([ctor_raises |-> ctor_raises])],
                               get_model(model_type, max_tokens, min_tokens, decoding,
                                         temperature, api_key, project_id, url, ctor_raises))]
    /\ UNCHANGED <<env, _global_config, config_objects, _pipeline, from_pretrained_calls>>

\* optional arguments a caller of generate_environment may pass
MaxTokenOverrides == {None, Some(0), Some(100)}

MinTokenOverrides == {None, Some(300)}

DecodingOverrides == {None, Some(<<"b", "e", "a", "m">>)}

TemperatureOverrides == {None, Some(0), Some(15)}

\* how a direct generate_environment call of r ends, g being what the call did
EnvironmentDone(r, rq, g) ==
    /\ _global_config' = g.cache
    /\ config_objects' = IF g.cache # _global_config THEN config_objects + 1
                         ELSE config_objects
    /\ req' = [req EXCEPT ![r] =
                  [rq EXCEPT !.pc = "done",
                             !.config_calls = g.config_calls,
                             !.config = IF g.config_calls = 0 THEN None ELSE g.cache,
                             !.model_ctor_calls = g.constructed,
                             !.model_generate_calls = g.generate_calls,
                             !.result = g.res.value,
                             !.raised = IF g.res.raised THEN Some(g.res.exc) ELSE None]]

\* generate_environment is called by r (lines 149-248)
Call_generate_environment(r, prompt, model_type, max_tokens, min_tokens, decoding, temperature, be) ==
    /\ req[r].pc = "idle"
    /\ EnvironmentDone(r,
           [IdleReq EXCEPT !.op = "generate_environment",
                           !.prompt = prompt,
                           !.args = Some([model_type  |-> model_type,
                                          max_tokens  |-> max_tokens,
                                          min_tokens  |-> min_tokens,
                                          decoding    |-> decoding,
                                          temperature |-> temperature]),
                           !.backend = Some(be)],
           generate_environment(prompt, model_type, max_tokens, min_tokens, decoding,
                                temperature, _global_config, env, config_objects + 1, be))
    /\ UNCHANGED <<env, _pipeline, from_pretrained_calls>>

(***************************************************************************)
(* The configuration getters called directly                               *)
(***************************************************************************)
TextPlaceholderKey == <<"<", "y", "o", "u", "r", "_", "k", "e", "y", ">">>

\* values of API_KEY, api_key, PROJECT_ID and project_id an environment may hold
ApiKeyValues == {None, Some(<<>>), Some(TextPlaceholderKey), Some(<<"k", "1">>)}

LowerApiKeyValues == {None, Some(TextPlaceholderKey), Some(<<"k", "2">>)}

ProjectIdValues ==
    {None, Some(<<"<", "y", "o", "u", "r">>), Some(<<"<", "y", "o", "u">>), Some(<<"p", "1">>)}

LowerProjectIdValues == {None, Some(<<"p", "2">>)}

\* values of the numeric settings, parsable and not
MaxTokensTexts == {None, Some(<<"a", "b", "c">>), Some(<<" ", "1", "2", " ">>)}

MinTokensTexts == {None, Some(<<>>)}

TemperatureTexts == {None, Some(<<"h", "o", "t">>)}

StepsTexts == {None, Some(<<"3", "0">>), Some(<<"7", ".", "5">>)}

GuidanceTexts == {None, Some(<<"9">>), Some(<<"h", "i", "g", "h">>)}

\* the environments the getters are run in
ConfigEnvSet ==
    {[BaseEnv EXCEPT !.API_KEY = k, !.api_key = lk, !.PROJECT_ID = p, !.project_id = lp,
                     !.WATSONX_MAX_TOKENS = mx, !.WATSONX_MIN_TOKENS = mn,
                     !.WATSONX_TEMPERATURE = t, !.SD_NUM_INFERENCE_STEPS = st,
                     !.SD_GUIDANCE_SCALE = g] :
        k \in ApiKeyValues, lk \in LowerApiKeyValues, p \in ProjectIdValues,
        lp \in LowerProjectIdValues, mx \in MaxTokensTexts, mn \in MinTokensTexts,
        t \in TemperatureTexts, st \in StepsTexts, g \in GuidanceTexts}

\* how a direct call of a getter ends, res being its outcome
GetterDone(rq, res) ==
    [rq EXCEPT !.pc = "done",
               !.result = res.value,
               !.raised = IF res.raised THEN Some(res.exc) ELSE None]

\* get_watsonx_config is called by r (lines 126-174)
Call_get_watsonx_config(r) ==
    /\ req[r].pc = "idle"
    /\ req' = [req EXCEPT ![r] = GetterDone([IdleReq EXCEPT !.op = "get_watsonx_config"],
                                            get_watsonx_config(env))]
    /\ UNCHANGED <<env, _global_config, config_objects, _pipeline, from_pretrained_calls>>

\* get_stable_diffusion_config is called by r (lines 177-208); it has no
\* raise statement and catches the ValueError of its two conversions
Call_get_stable_diffusion_config(r) ==
    /\ req[r].pc = "idle"
    /\ req' = [req EXCEPT ![r] =
                  GetterDone([IdleReq EXCEPT !.op = "get_stable_diffusion_config"],
                             Return(get_stable_diffusion_config(env)))]
    /\ UNCHANGED <<env, _global_config, config_objects, _pipeline, from_pretrained_calls>>

(***************************************************************************)
(* The command-line entry points                                           *)
(***************************************************************************)
EntryPoints == {"main", "generate_environment_main"}

\* app.main is started (lines 362-377): it first calls get_global_config
Call_main(r) ==
    /\ req[r].pc = "idle"
    /\ req' = [req EXCEPT ![r] = [IdleReq EXCEPT !.op = "main", !.pc = "get_global_config"]]
    /\ UNCHANGED <<env, _global_config, config_objects, _pipeline, from_pretrained_calls>>

\* app.main, lines 384-394: create_interface() and interface.launch(), which
\* serves until it returns or raises
Launch(r) ==
    /\ req[r].op = "main"
    /\ req[r].pc = "launch"
    /\ req' = [req EXCEPT ![r] = [@ EXCEPT !.pc = "serving", !.launched = TRUE]]
    /\ UNCHANGED <<env, _global_config, config_objects, _pipeline, from_pretrained_calls>>

\* interface.launch() ends: main returns, or the exception reaches its handlers
LaunchEnds(r, raises) ==
    /\ req[r].op = "main"
    /\ req[r].pc = "serving"
    /\ req' = [req EXCEPT ![r] =
                  IF raises THEN Fail(@, Exc("OSError", "cannot bind the server port"))
                            ELSE [@ EXCEPT !.pc = "done"]]
    /\ UNCHANGED <<env, _global_config, config_objects, _pipeline, from_pretrained_calls>>

\* generate_environment.main is started (lines 251-265): it waits in input()
Call_generate_environment_main(r) ==
    /\ req[r].pc = "idle"
    /\ req' = [req EXCEPT ![r] = [IdleReq EXCEPT !.op = "generate_environment_main",
                                                 !.pc = "input"]]
    /\ UNCHANGED <<env, _global_config, config_objects, _pipeline, from_pretrained_calls>>

\* lines 265-269: the line typed by the user, stripped; an empty one ends the
\* program with sys.exit(1)
Input(r, text) ==
    /\ req[r].op = "generate_environment_main"
    /\ req[r].pc = "input"
    /\ req' = [req EXCEPT ![r] =
                  IF Strip(text) = <<>>
                  THEN Exit(@, 1, None)
                  ELSE [@ EXCEPT !.pc = "generate_environment", !.prompt = Some(Strip(text))]]
    /\ UNCHANGED <<env, _global_config, config_objects, _pipeline, from_pretrained_calls>>

\* lines 276-302 in the program rq, g being what generate_environment did
Described(rq, g) ==
    IF g.res.raised
    THEN Exit([rq EXCEPT !.config_calls = g.config_calls,
                         !.model_generate_calls = g.generate_calls],
              generate_environment_main_except(g.res.exc), Some(g.res.exc))
    ELSE [rq EXCEPT !.pc = "done", !.result = g.res.value,
                    !.config_calls = g.config_calls,
                    !.model_generate_calls = g.generate_calls]

\* the effect of the call at line 276 on the globals and on the program
DescribeStep(r, g) ==
    /\ _global_config' = g.cache
    /\ config_objects' = IF g.cache # _global_config THEN config_objects + 1
                         ELSE config_objects
    /\ req' = [req EXCEPT ![r] = Described(@, g)]

\* generate_environment.main, lines 276-302: the call and the printing
Describe(r, be) ==
    /\ req[r].op = "generate_environment_main"
    /\ req[r].pc = "generate_environment"
    /\ DescribeStep(r, generate_environment(req[r].prompt, None, None, None, None, None,
                                            _global_config, env, config_objects + 1, be))
    /\ UNCHANGED <<env, _pipeline, from_pretrained_calls>>

\* the user presses Ctrl-C while an entry point runs: KeyboardInterrupt is no
\* Exception, so it passes every  except Exception  and reaches the entry
\* point's own clause (app.py:407-409, generate_environment.py:295-297)
Interrupt(r) ==
    /\ req[r].op \in EntryPoints
    /\ req[r].pc \notin {"idle", "done"}
    /\ req' = [req EXCEPT ![r] =
                  Exit(@, IF @.op = "main"
                          THEN main_except(Exc("KeyboardInterrupt", ""))
                          ELSE generate_environment_main_except(Exc("KeyboardInterrupt", "")),
                       Some(Exc("KeyboardInterrupt", "")))]
    /\ UNCHANGED <<env, _global_config, config_objects, _pipeline, from_pretrained_calls>>

(***************************************************************************)
(* Specification: requests are served one at a time                        *)
(***************************************************************************)
Init ==
    /\ env \in EnvSet
    /\ _global_config = None
    /\ config_objects = 0
    /\ _pipeline = None
    /\ from_pretrained_calls = 0
    /\ req = [r \in Reqs |-> IdleReq]

StartRequest ==
    /\ OneAtATime
    /\ \E prompt \in Prompts, enrichment_type \in EnrichmentTypes,
          custom_data \in CustomData, steps \in StepOverrides, guidance \in GuidanceOverrides :
           Call_generate_360_image(MainThread, prompt, enrichment_type, custom_data,
                                   steps, guidance)

StartGetPipeline == OneAtATime /\ Call_get_pipeline(MainThread)

\* the environment changes between two calls
ChangeEnv == OneAtATime /\ \E e \in EnvSet : SetEnv(e)

Next ==
    \/ StartRequest
    \/ StartGetPipeline
    \/ \E r \in Reqs : GetGlobalConfig(r)
    \/ \E r \in Reqs : GetConfig(r)
    \/ \E r \in Reqs, be \in EnrichmentBehaviours : Enrich(r, be)
    \/ \E r \in Reqs : GetPipeline(r)
    \/ \E r \in Reqs, bb \in BuildBehaviours : BuildPipeline(r, bb)
    \/ \E r \in Reqs, pb \in PipelineBehaviours : Generate(r, pb)
    \/ \E r \in Reqs : Finish(r)
    \/ ChangeEnv

Spec == Init /\ [][Next]_vars

(***************************************************************************)
(* Specification: the enrichment client called directly, one call at a time *)
(***************************************************************************)
StartGetModel ==
    /\ OneAtATime
    /\ \E model_type \in ModelTypes, max_tokens \in MaxTokenArgs, min_tokens \in MinTokenArgs,
          decoding \in DecodingArgs, temperature \in TemperatureArgs,
          api_key \in ApiKeyArgs, ctor_raises \in BOOLEAN :
           Call_get_model(MainThread, model_type, max_tokens, min_tokens, decoding,
                          temperature, api_key, <<"p", "1">>,
                          "https://us-south.ml.cloud.ibm.com", ctor_raises)

StartGenerateEnvironment ==
    /\ OneAtATime
    /\ \E prompt \in Prompts, max_tokens \in MaxTokenOverrides,
          min_tokens \in MinTokenOverrides, decoding \in DecodingOverrides,
          temperature \in TemperatureOverrides, be \in EnrichmentBehaviours :
           Call_generate_environment(MainThread, prompt, None, max_tokens, min_tokens,
                                     decoding, temperature, be)

ClientNext ==
    \/ StartGetModel
    \/ StartGenerateEnvironment
    \/ \E r \in Reqs : Finish(r)
    \/ ChangeEnv

ClientSpec == Init /\ [][ClientNext]_vars

(***************************************************************************)
(* Specification: one call of a configuration getter in some environment   *)
(***************************************************************************)
ConfigInit ==
    /\ env \in ConfigEnvSet
    /\ _global_config = None
    /\ config_objects = 0
    /\ _pipeline = None
    /\ from_pretrained_calls = 0
    /\ req = [r \in Reqs |-> IdleReq]

StartGetWatsonXConfig == OneAtATime /\ Call_get_watsonx_config(MainThread)

StartGetStableDiffusionConfig == OneAtATime /\ Call_get_stable_diffusion_config(MainThread)

ConfigNext ==
    \/ StartGetWatsonXConfig
    \/ StartGetStableDiffusionConfig

ConfigSpec == ConfigInit /\ [][ConfigNext]_vars

(***************************************************************************)
(* Specification: a process started through one of the entry points        *)
(***************************************************************************)
\* what the user may type at the prompt of generate_environment.main
TypedLines == {<<>>, <<" ", "\t">>, <<" ", "s", "e", "a", " ">>}

StartMain == OneAtATime /\ Call_main(MainThread)

StartGenerateEnvironmentMain == OneAtATime /\ Call_generate_environment_main(MainThread)

MainNext ==
    \/ StartMain
    \/ StartGenerateEnvironmentMain
    \/ \E r \in Reqs : GetGlobalConfig(r)
    \/ \E r \in Reqs : GetConfig(r)
    \/ \E r \in Reqs : GetPipeline(r)
    \/ \E r \in Reqs, bb \in BuildBehaviours : BuildPipeline(r, bb)
    \/ \E r \in Reqs : Launch(r)
    \/ \E r \in Reqs, raises \in BOOLEAN : LaunchEnds(r, raises)
    \/ \E r \in Reqs, text \in TypedLines : Input(r, text)
    \/ \E r \in Reqs, be \in EnrichmentBehaviours : Describe(r, be)
    \/ \E r \in Reqs : Interrupt(r)

MainSpec == Init /\ [][MainNext]_vars

(***************************************************************************)
(* Specification: the host serves requests concurrently                    *)
(***************************************************************************)
\* the environments of the concurrent runs: a complete one and one without
\* the API key
ConcurrentEnvs == {BaseEnv, [BaseEnv EXCEPT !["API_KEY"] = None]}

\* the enrichment backend answers with a description or with nothing, or raises
ConcurrentEnrichment ==
    {be \in EnrichmentBehaviours :
        /\ ~be.ctor_raises
        /\ be.response \in {None,
                            Some([results |-> <<[generated_text |->
                                                    <<" ", "d", "u", "n", "e", "\n">>]>>])}}

\* any construction on a host with CUDA
ConcurrentBuild == {bb \in BuildBehaviours : bb.cuda_available}

\* the pipeline returns one image or raises
ConcurrentPipeline ==
    {pb \in PipelineBehaviours :
        pb.raises \/ pb.result = Some([images |-> <<[size |-> <<1024, 512>>]>>])}

ConcurrentInit ==
    /\ env \in ConcurrentEnvs
    /\ _global_config = None
    /\ config_objects = 0
    /\ _pipeline = None
    /\ from_pretrained_calls = 0
    /\ req = [r \in Reqs |-> IdleReq]

\* a request arrives on any worker that is free, whatever the others do
StartConcurrentRequest ==
    \E r \in Reqs : Call_generate_360_image(r, Some(TextSea), "Standard", None, None, None)

StartConcurrentGetPipeline == \E r \in Reqs : Call_get_pipeline(r)

ConcurrentNext ==
    \/ StartConcurrentRequest
    \/ StartConcurrentGetPipeline
    \/ \E r \in Reqs : GetGlobalConfig(r)
    \/ \E r \in Reqs : GetConfig(r)
    \/ \E r \in Reqs, be \in ConcurrentEnrichment : Enrich(r, be)
    \/ \E r \in Reqs : GetPipeline(r)
    \/ \E r \in Reqs, bb \in ConcurrentBuild : BuildPipeline(r, bb)
    \/ \E r \in Reqs, pb \in ConcurrentPipeline : Generate(r, pb)
    \/ \E r \in Reqs : Finish(r)

ConcurrentSpec == ConcurrentInit /\ [][ConcurrentNext]_vars

(***************************************************************************)
(* Properties                                                              *)
(***************************************************************************)
\* r is inside (or has just finished) a generate_360_image call
Gen(r) == req[r].op = "generate_360_image"

\* generate_360_image of r has returned
Returned(r) == Gen(r) /\ req[r].pc = "done"

\* the prompt is absent, empty or made of whitespace only
IsBlank(prompt) ==
    prompt = None \/ \A i \in 1..Len(The(prompt)) : The(prompt)[i] \in Whitespace

\* the image backend answered the call of r with at least one image
BackendGaveImage(r) ==
    /\ req[r].pipeline_out # None
    /\ ~The(req[r].pipeline_out).raises
    /\ The(req[r].pipeline_out).result # None
    /\ The(The(req[r].pipeline_out).result).images # <<>>

\* the image backend answered the call of r with no result or with zero images
BackendGaveNoImage(r) ==
    /\ req[r].pipeline_out # None
    /\ ~The(req[r].pipeline_out).raises
    /\ \/ The(req[r].pipeline_out).result = None
       \/ The(The(req[r].pipeline_out).result).images = <<>>

\* C1 as stated: whenever the enrichment call failed with WatsonXModelError,
\* the returned request has called the image backend exactly once and
\* returns an image.
C1_Original ==
    \A r \in Reqs :
        (Returned(r) /\ req[r].enrichment = "WatsonXModelError")
            => /\ req[r].pipeline_calls = 1
               /\ The(req[r].result).image # None

\* C1 (amended): a WatsonXModelError of the enrichment call does not end the
\* request: it goes on to get_pipeline (called exactly once); if a pipeline
\* is obtained the image backend is called exactly once, otherwise not at
\* all; and the request returns an image exactly when that call gave one.
C1_EnrichmentFailureContinues ==
    \A r \in Reqs :
        (Gen(r) /\ req[r].enrichment = "WatsonXModelError")
            => /\ req[r].pc \in {"get_pipeline", "from_pretrained", "pipeline", "done"}
               /\ req[r].enriched_prompt # None
               /\ req[r].pc = "done"
                    => /\ req[r].get_pipeline_calls = 1
                       /\ req[r].pipeline # None => req[r].pipeline_calls = 1
                       /\ req[r].pipeline = None => req[r].pipeline_calls = 0
                       /\ (The(req[r].result).image # None) <=> BackendGaveImage(r)

\* a request whose enrichment failed has returned an image
C1_Witness ==
    \E r \in Reqs :
        /\ Returned(r)
        /\ req[r].enrichment = "WatsonXModelError"
        /\ req[r].model_generate_calls = 1
        /\ req[r].pipeline_calls = 1
        /\ The(req[r].result).image # None

\* the message is flagged as a warning about the failed enrichment
CarriesWarning(message) ==
    message.indicator = "WARNING" \/ message.head = StatusWarning

\* C2: when the enrichment call failed with WatsonXModelError and an image
\* was generated, the returned status message carries the warning that the
\* original prompt was used.
C2_WarningReturned ==
    \A r \in Reqs :
        (Returned(r) /\ req[r].enrichment = "WatsonXModelError"
                     /\ The(req[r].result).image # None)
            => CarriesWarning(The(req[r].result).message)

\* C3: a request with an empty or whitespace-only prompt returns (None,
\* error message) and resolves no configuration, makes no enrichment call,
\* acquires no pipeline and makes no image backend call.
C3_EmptyPromptRejected ==
    \A r \in Reqs :
        (Gen(r) /\ IsBlank(req[r].prompt))
            => /\ req[r].pc = "done"
               /\ req[r].result # None
               /\ The(req[r].result).image = None
               /\ The(req[r].result).message.indicator = "ERROR"
               /\ req[r].config_calls = 0
               /\ req[r].get_config_calls = 0
               /\ req[r].config = None
               /\ req[r].enrichment = "none"
               /\ req[r].model_generate_calls = 0
               /\ req[r].get_pipeline_calls = 0
               /\ req[r].constructions = 0
               /\ req[r].pipeline_calls = 0

\* a whitespace-only prompt has been answered
C3_Witness ==
    \E r \in Reqs :
        /\ Returned(r)
        /\ req[r].prompt = Some(<<" ", "\t">>)
        /\ The(req[r].result).message.detail = "Prompt cannot be empty"

\* C4 as stated: from_pretrained is invoked at most once in a process.
C4_Original == from_pretrained_calls <= 1

\* C4 (amended): once a get_pipeline call has succeeded and the pipeline is
\* cached, the cached pipeline is never replaced and from_pretrained is
\* never invoked again, whatever calls follow.
C4_NoConstructionOnceCached ==
    [][_pipeline # None
          => /\ _pipeline' = _pipeline
             /\ from_pretrained_calls' = from_pretrained_calls]_vars

\* a call was served from the cache without any construction of its own
C4_Witness ==
    \E r \in Reqs :
        /\ req[r].pipeline # None
        /\ req[r].pipeline = _pipeline
        /\ req[r].get_pipeline_calls = 1
        /\ req[r].constructions = 0

\* the enrichment parameters of the configuration break a constraint
InvalidEnrichmentParameters(config) ==
    LET w == config.watsonx
    IN  \/ w.temperature < 0 \/ w.temperature > 10
        \/ w.min_tokens > w.max_tokens
        \/ w.max_tokens <= 0
        \/ Lower(w.decoding_method) \notin {TextSample, TextGreedy}

\* C5: when the configured enrichment parameters are invalid, the request
\* is aborted at the enrichment step: it returns (None, error message) and
\* neither acquires the pipeline nor calls the image backend.
C5_ValidationAborts ==
    \A r \in Reqs :
        (Gen(r) /\ req[r].enrichment # "none" /\ req[r].config # None
                /\ InvalidEnrichmentParameters(The(req[r].config)))
            => /\ req[r].pc = "done"
               /\ The(req[r].result).image = None
               /\ req[r].get_pipeline_calls = 0
               /\ req[r].pipeline_calls = 0

\* the value an override stands for: itself when given, else the default
Override(given, default) == IF given # None THEN The(given) ELSE default

\* C6: the step count and the guidance scale of a request are the caller's
\* overrides whenever given (0 included) and the configured values only when
\* the override is None, and these are the values passed to the image backend.
C6_OverridesRespected ==
    \A r \in Reqs :
        (Gen(r) /\ req[r].num_inference_steps # None)
            => LET sd == The(req[r].config).stable_diffusion
                   steps    == Override(req[r].arg_steps, sd.num_inference_steps)
                   guidance == Override(req[r].arg_guidance, sd.guidance_scale)
               IN  /\ The(req[r].num_inference_steps) = steps
                   /\ The(req[r].guidance_scale) = guidance
                   /\ req[r].pipeline_args # None
                        => /\ The(req[r].pipeline_args).num_inference_steps = steps
                           /\ The(req[r].pipeline_args).guidance_scale = guidance

\* the invariants of the configuration records
ConfigInvariants(config) ==
    /\ ~InvalidEnrichmentParameters(config)
    /\ config.stable_diffusion.num_inference_steps > 0
    /\ config.stable_diffusion.guidance_scale > 0

\* C7: every configuration the resolver returns satisfies the invariants of
\* the data model.
C7_ResolvedConfigValid ==
    _global_config # None => ConfigInvariants(The(_global_config))

\* C8: a request with a non-empty prompt whose configuration resolution
\* failed returns (None, configuration error message) and has called neither
\* the enrichment backend nor the image backend.
C8_ConfigFailureMessage ==
    \A r \in Reqs :
        (Returned(r) /\ ~IsBlank(req[r].prompt) /\ req[r].config = None)
            => /\ The(req[r].result).image = None
               /\ The(req[r].result).message.indicator = "ERROR"
               /\ The(req[r].result).message.head = "Configuration Error"
               /\ req[r].enrichment = "none"
               /\ req[r].model_generate_calls = 0
               /\ req[r].pipeline_calls = 0

\* C9: when the image backend returns no result or a result with zero
\* images, the request returns (None, message with the error indicator),
\* whatever the enrichment step did.
C9_NoImagesIsError ==
    \A r \in Reqs :
        (Returned(r) /\ BackendGaveNoImage(r))
            => /\ The(req[r].result).image = None
               /\ The(req[r].result).message.indicator = "ERROR"

\* enrichment succeeded and the image backend then returned zero images
C9_Witness ==
    \E r \in Reqs :
        /\ Returned(r)
        /\ req[r].enrichment = "ok"
        /\ req[r].pipeline_calls = 1
        /\ The(req[r].pipeline_out).result = Some([images |-> <<>>])

\* C10: once get_global_config has succeeded, the cached ApplicationConfig
\* is never replaced, no further ApplicationConfig is created, and every
\* call that obtains a configuration obtains that very instance.
C10_CachedConfigKept ==
    [][_global_config # None
          => /\ _global_config' = _global_config
             /\ config_objects' = config_objects
             /\ \A r \in Reqs :
                    req'[r].config # None => req'[r].config = _global_config']_vars

\* a call got the cached instance, without loading, although the environment
\* no longer yields that configuration
C10_Witness ==
    \E r \in Reqs :
        /\ req[r].config # None
        /\ req[r].config = _global_config
        /\ req[r].config_calls = 1
        /\ req[r].get_config_calls = 0
        /\ get_config(env, The(_global_config).id) # Return(The(_global_config))

\* a direct get_model call of r has ended
GetModelEnded(r) == req[r].op = "get_model" /\ req[r].pc = "done"

\* the ValueError of the min_tokens check for these two values
MinTokensError(min_tokens, max_tokens) ==
    Exc("ValueError", <<"min_tokens cannot be greater than max_tokens", min_tokens, max_tokens>>)

\* C11 as stated: given min tokens > max tokens, get_model fails with the
\* min_tokens validation error whatever the other parameters are.
C11_Original ==
    \A r \in Reqs :
        (GetModelEnded(r) /\ The(req[r].args).min_tokens > The(req[r].args).max_tokens)
            => req[r].raised = Some(MinTokensError(The(req[r].args).min_tokens,
                                                   The(req[r].args).max_tokens))

\* C11 (amended): given min tokens > max tokens, get_model always fails with
\* a ValueError and builds no Model; the error is the min_tokens error for
\* those two values, whatever the decoding strategy, model type, credentials
\* and sign of max tokens, whenever the temperature lies in [0,1], and the
\* temperature error otherwise.
C11_MinTokensFailure ==
    \A r \in Reqs :
        (GetModelEnded(r) /\ The(req[r].args).min_tokens > The(req[r].args).max_tokens)
            => LET a == The(req[r].args)
               IN  /\ req[r].raised # None
                   /\ req[r].result = None
                   /\ req[r].model_ctor_calls = 0
                   /\ The(req[r].raised).type = "ValueError"
                   /\ (0 <= a.temperature /\ a.temperature <= 10)
                        => The(req[r].raised) = MinTokensError(a.min_tokens, a.max_tokens)
                   /\ ~(0 <= a.temperature /\ a.temperature <= 10)
                        => The(req[r].raised).msg =
                               <<"Temperature must be between 0.0 and 1.0, got", a.temperature>>

\* min tokens > max tokens together with a non-positive max tokens and an
\* unknown decoding strategy: the min_tokens error is raised
C11_Witness ==
    \E r \in Reqs :
        /\ GetModelEnded(r)
        /\ The(req[r].args).min_tokens = 150
        /\ The(req[r].args).max_tokens = 0
        /\ The(req[r].args).decoding = <<"b", "e", "a", "m">>
        /\ The(req[r].args).temperature = 10
        /\ req[r].raised = Some(MinTokensError(150, 0))

\* the parameters of a get_model call break one of the constraints
ViolatesEnrichmentConstraint(a) ==
    \/ a.temperature < 0 \/ a.temperature > 10
    \/ a.min_tokens > a.max_tokens
    \/ a.max_tokens <= 0
    \/ Lower(a.decoding) \notin {TextSample, TextGreedy}

\* C12: whenever the parameters of a get_model call violate a constraint,
\* the call raises ValueError and the backend Model is never constructed (so
\* no backend generate call can be made); a call with parameters that satisfy
\* every constraint does construct the Model.
C12_ValidationBeforeBackend ==
    \A r \in Reqs :
        GetModelEnded(r)
            => /\ ViolatesEnrichmentConstraint(The(req[r].args))
                    => /\ req[r].raised # None
                       /\ The(req[r].raised).type = "ValueError"
                       /\ req[r].result = None
                       /\ req[r].model_ctor_calls = 0
                       /\ req[r].model_generate_calls = 0
               /\ ~ViolatesEnrichmentConstraint(The(req[r].args))
                    => req[r].model_ctor_calls = 1

\* a call whose only fault is the decoding strategy, with a constructor that
\* would have raised, ended in the validation error
C12_Witness ==
    \E r \in Reqs :
        /\ GetModelEnded(r)
        /\ The(req[r].args).decoding = <<"b", "e", "a", "m">>
        /\ The(req[r].args).temperature = 7
        /\ The(req[r].args).max_tokens = 250
        /\ The(req[r].args).min_tokens = 150
        /\ The(req[r].backend).ctor_raises
        /\ The(req[r].raised).type = "ValueError"
        /\ req[r].model_ctor_calls = 0

\* a direct generate_environment call of r has ended
EnvironmentEnded(r) == req[r].op = "generate_environment" /\ req[r].pc = "done"

\* the response is empty, lacks a results list or has an empty results list
ResponseUnusable(response) ==
    \/ response = None
    \/ "results" \notin DOMAIN The(response)
    \/ The(response).results = <<>>

\* the first result of a usable response carries a generated text
FirstHasText(response) == "generated_text" \in DOMAIN The(response).results[1]

\* the enrichment parameters of a call with arguments a under configuration
\* w, an argument standing for itself whenever it is given
IntendedParameters(a, w) ==
    [max_tokens  |-> Override(a.max_tokens, w.max_tokens),
     min_tokens  |-> Override(a.min_tokens, w.min_tokens),
     decoding    |-> Override(a.decoding, w.decoding_method),
     temperature |-> Override(a.temperature, w.temperature)]

\* the same, a zero argument counting as not given
TruthyParameters(a, w) ==
    [max_tokens  |-> Or(a.max_tokens, 0, w.max_tokens),
     min_tokens  |-> Or(a.min_tokens, 0, w.min_tokens),
     decoding    |-> Or(a.decoding, <<>>, w.decoding_method),
     temperature |-> Or(a.temperature, 0, w.temperature)]

\* the configuration was resolved and the parameters are valid however the
\* arguments are combined with it
ValidParameters(r) ==
    /\ req[r].config # None
    /\ ~ViolatesEnrichmentConstraint(
            IntendedParameters(The(req[r].args), The(req[r].config).watsonx))
    /\ ~ViolatesEnrichmentConstraint(
            TruthyParameters(The(req[r].args), The(req[r].config).watsonx))

\* C16 as stated: for a non-empty prompt and valid parameters the backend's
\* generate is invoked exactly once; an empty response, one without results
\* or with an empty results list gives WatsonXModelError; any other response
\* (whose first result has a generated text) gives that text, stripped.
C16_Original ==
    \A r \in Reqs :
        (EnvironmentEnded(r) /\ ~IsBlank(req[r].prompt) /\ ValidParameters(r))
            => LET be == The(req[r].backend)
               IN  /\ req[r].model_generate_calls = 1
                   /\ ~be.generate_raises
                        => IF ResponseUnusable(be.response)
                           THEN /\ req[r].raised # None
                                /\ The(req[r].raised).type = "WatsonXModelError"
                           ELSE FirstHasText(be.response)
                                  => /\ req[r].raised = None
                                     /\ req[r].result =
                                          Some(Strip(The(be.response).results[1].generated_text))

\* C16 (amended): for a non-empty prompt, generate_environment invokes the
\* backend's generate exactly once when the Model was constructed, and not at
\* all otherwise; if that call raises, or the response is empty, lacks a
\* results list, has an empty results list, or its first result has no
\* generated text, the call fails with WatsonXModelError; otherwise it returns
\* the first result's generated text with surrounding whitespace removed.
C16_BackendCalledOnce ==
    \A r \in Reqs :
        (EnvironmentEnded(r) /\ ~IsBlank(req[r].prompt))
            => LET be    == The(req[r].backend)
                   built == req[r].model_ctor_calls = 1 /\ ~be.ctor_raises
               IN  /\ req[r].model_ctor_calls <= 1
                   /\ req[r].model_generate_calls = (IF built THEN 1 ELSE 0)
                   /\ ~built => req[r].raised # None /\ req[r].result = None
                   /\ built
                        => IF \/ be.generate_raises
                              \/ ResponseUnusable(be.response)
                              \/ ~FirstHasText(be.response)
                           THEN /\ req[r].raised # None
                                /\ The(req[r].raised).type = "WatsonXModelError"
                                /\ req[r].result = None
                           ELSE /\ req[r].raised = None
                                /\ req[r].result =
                                     Some(Strip(The(be.response).results[1].generated_text))

\* one backend call returned a text with surrounding whitespace, and the
\* caller got it stripped
C16_Witness ==
    \E r \in Reqs :
        /\ EnvironmentEnded(r)
        /\ req[r].prompt = Some(TextSea)
        /\ req[r].model_generate_calls = 1
        /\ req[r].result = Some(<<"d", "u", "n", "e">>)
        /\ The(The(req[r].backend).response).results[1].generated_text
               = <<" ", "d", "u", "n", "e", "\n">>

\* C17: a generate_environment call with an empty or whitespace-only prompt
\* raises ValueError, and it does so without resolving the configuration
\* (the cache is left as it was), constructing a Model or calling the backend.
C17_EmptyPromptValueError ==
    [][\A r \in Reqs :
          (/\ req[r].pc = "idle"
           /\ req'[r].op = "generate_environment"
           /\ IsBlank(req'[r].prompt))
              => /\ req'[r].pc = "done"
                 /\ req'[r].raised # None
                 /\ The(req'[r].raised).type = "ValueError"
                 /\ req'[r].result = None
                 /\ req'[r].config_calls = 0
                 /\ req'[r].model_ctor_calls = 0
                 /\ req'[r].model_generate_calls = 0
                 /\ _global_config' = _global_config
                 /\ config_objects' = config_objects]_vars

\* a whitespace-only prompt was refused while the configuration was still
\* unresolved and resolvable
C17_Witness ==
    \E r \in Reqs :
        /\ EnvironmentEnded(r)
        /\ req[r].prompt = Some(<<" ", "\t">>)
        /\ req[r].raised = Some(Exc("ValueError", "Prompt cannot be empty"))
        /\ _global_config = None
        /\ env = BaseEnv

\* a direct call of the getter op by r has ended
GetterEnded(r, op) == req[r].op = op /\ req[r].pc = "done"

\* the first of the two variables that is set and not empty
FirstSet(upper, lower) == IF upper # None /\ The(upper) # <<>> THEN upper ELSE lower

\* the value is missing, empty or begins with "<your"
MissingOrPlaceholder(v) ==
    \/ v = None
    \/ Len(The(v)) = 0
    \/ /\ Len(The(v)) >= 5
       /\ The(v)[1] = "<" /\ The(v)[2] = "y" /\ The(v)[3] = "o"
       /\ The(v)[4] = "u" /\ The(v)[5] = "r"

\* the three enrichment numeric settings of e, where set, are numbers
EnrichmentNumbersParse(e) ==
    /\ e.WATSONX_MAX_TOKENS # None => ParseInt(The(e.WATSONX_MAX_TOKENS)).ok
    /\ e.WATSONX_MIN_TOKENS # None => ParseInt(The(e.WATSONX_MIN_TOKENS)).ok
    /\ e.WATSONX_TEMPERATURE # None => ParseFloat(The(e.WATSONX_TEMPERATURE)).ok

\* the two image generation numeric settings of e, where set, are numbers
ImageNumbersParse(e) ==
    /\ e.SD_NUM_INFERENCE_STEPS # None => ParseInt(The(e.SD_NUM_INFERENCE_STEPS)).ok
    /\ e.SD_GUIDANCE_SCALE # None => ParseFloat(The(e.SD_GUIDANCE_SCALE)).ok

\* C13: get_watsonx_config raises ConfigurationError whenever the credential
\* (API_KEY, or api_key when API_KEY is unset or empty) or the project
\* identifier (PROJECT_ID / project_id) is missing, empty or begins with
\* "<your"; otherwise, the numeric settings being parsable, it returns a
\* record with exactly those two values; and it fails in no other case than
\* these and an unparsable numeric setting.
C13_CredentialsRequired ==
    \A r \in Reqs :
        GetterEnded(r, "get_watsonx_config")
            => LET credential == FirstSet(env.API_KEY, env.api_key)
                   project    == FirstSet(env.PROJECT_ID, env.project_id)
                   missing    == \/ MissingOrPlaceholder(credential)
                                 \/ MissingOrPlaceholder(project)
               IN  /\ missing => /\ req[r].raised # None
                                 /\ The(req[r].raised).type = "ConfigurationError"
                                 /\ req[r].result = None
                   /\ (~missing /\ EnrichmentNumbersParse(env))
                        => /\ req[r].raised = None
                           /\ The(req[r].result).api_key = The(credential)
                           /\ The(req[r].result).project_id = The(project)
                   /\ req[r].raised # None <=> (missing \/ ~EnrichmentNumbersParse(env))

\* the lower-case api_key stood in for an empty API_KEY, and a project
\* identifier that only resembles the placeholder was accepted
C13_Witness ==
    \E r \in Reqs :
        /\ GetterEnded(r, "get_watsonx_config")
        /\ env.API_KEY = Some(<<>>)
        /\ env.PROJECT_ID = Some(<<"<", "y", "o", "u">>)
        /\ req[r].raised = None
        /\ The(req[r].result).api_key = <<"k", "2">>
        /\ The(req[r].result).project_id = <<"<", "y", "o", "u">>

\* C14: an unparsable enrichment numeric setting (max tokens, min tokens,
\* temperature) makes get_watsonx_config raise ConfigurationError, whereas
\* get_stable_diffusion_config never raises, and with an unparsable inference
\* steps or guidance scale setting it returns the defaults steps = 50 and
\* guidance = 7.5.
C14_ParsingAsymmetry ==
    \A r \in Reqs :
        /\ (GetterEnded(r, "get_watsonx_config") /\ ~EnrichmentNumbersParse(env))
              => /\ req[r].raised # None
                 /\ The(req[r].raised).type = "ConfigurationError"
        /\ GetterEnded(r, "get_stable_diffusion_config")
              => /\ req[r].raised = None
                 /\ req[r].result # None
                 /\ ~ImageNumbersParse(env)
                      => /\ The(req[r].result).num_inference_steps = 50
                         /\ The(req[r].result).guidance_scale = 75

\* in one environment with good credentials where both a max tokens and a
\* guidance scale setting are unparsable, the image getter returned the
\* defaults (dropping the valid steps setting 30) while the enrichment getter
\* raises ConfigurationError
C14_Witness ==
    \E r \in Reqs :
        /\ GetterEnded(r, "get_stable_diffusion_config")
        /\ env.API_KEY = Some(<<"k", "1">>)
        /\ env.PROJECT_ID = Some(<<"p", "1">>)
        /\ env.SD_NUM_INFERENCE_STEPS = Some(<<"3", "0">>)
        /\ env.SD_GUIDANCE_SCALE = Some(<<"h", "i", "g", "h">>)
        /\ env.WATSONX_MAX_TOKENS = Some(<<"a", "b", "c">>)
        /\ The(req[r].result).num_inference_steps = 50
        /\ The(req[r].result).guidance_scale = 75
        /\ get_watsonx_config(env).exc.type = "ConfigurationError"

\* C15: no exception ever leaves generate_360_image, and a call that has
\* ended has returned a pair (image, status) in which the image is None
\* exactly when the status carries the error indicator and is present exactly
\* when the status is the success message.
C15_UniformResult ==
    \A r \in Reqs :
        Gen(r)
            => /\ req[r].raised = None
               /\ req[r].pc = "done"
                    => /\ req[r].result # None
                       /\ (The(req[r].result).image = None)
                             <=> (The(req[r].result).message.indicator = "ERROR")
                       /\ (The(req[r].result).image # None)
                             <=> (The(req[r].result).message.indicator = "SUCCESS")

\* an exception of the image backend that is neither a configuration nor an
\* image generation error came back as (None, error message)
C15_Witness ==
    \E r \in Reqs :
        /\ Returned(r)
        /\ req[r].pipeline_out # None
        /\ The(req[r].pipeline_out).raises
        /\ The(req[r].result).image = None
        /\ The(req[r].result).message.head = "Unexpected Error"

\* C18: a request that returns an image returns the first image of the
\* backend result, and its message is the success message giving that
\* image's resolution as WIDTHxHEIGHT and the step count and guidance scale
\* that were passed to the image backend in this request.
C18_SuccessMessage ==
    \A r \in Reqs :
        (Returned(r) /\ The(req[r].result).image # None)
            => LET image   == The(The(req[r].result).image)
                   message == The(req[r].result).message
               IN  /\ BackendGaveImage(r)
                   /\ image = The(The(req[r].pipeline_out).result).images[1]
                   /\ message.indicator = "SUCCESS"
                   /\ message.resolution = <<image.size[1], "x", image.size[2]>>
                   /\ message.inference_steps = The(req[r].pipeline_args).num_inference_steps
                   /\ message.guidance = The(req[r].pipeline_args).guidance_scale

\* of two images the first, 1024 wide and 512 high, was returned, with the
\* caller's 20 steps in the message
C18_Witness ==
    \E r \in Reqs :
        /\ Returned(r)
        /\ req[r].arg_steps = Some(20)
        /\ BackendGaveImage(r)
        /\ Len(The(The(req[r].pipeline_out).result).images) = 2
        /\ The(req[r].result).image = Some([size |-> <<1024, 512>>])
        /\ The(req[r].result).message.resolution = <<1024, "x", 512>>
        /\ The(req[r].result).message.inference_steps = 20

\* the prompt the request works with after the enrichment step
WorkingPrompt(r) ==
    IF req[r].enrichment = "ok"
    THEN Strip(The(req[r].generated_text))
    ELSE The(req[r].prompt)

\* the style adapter is enabled and a trigger token is configured
TriggerApplies(config) ==
    config.stable_diffusion.use_lora /\ Len(config.stable_diffusion.trigger_word) > 0

\* C20: the prompt handed to the image backend is the working prompt (the
\* stripped enriched text after a successful enrichment, the caller's prompt
\* after a WatsonXModelError) with the trigger token and one space in front
\* when the style adapter is enabled and the token is not empty, and the
\* working prompt itself otherwise; the image backend is reached in no other
\* enrichment outcome.
C20_PromptHandedOver ==
    \A r \in Reqs :
        (Gen(r) /\ req[r].pipeline_args # None)
            => /\ req[r].enrichment \in {"ok", "WatsonXModelError"}
               /\ The(req[r].pipeline_args).prompt =
                    IF TriggerApplies(The(req[r].config))
                    THEN The(req[r].config).stable_diffusion.trigger_word
                            \o <<" ">> \o WorkingPrompt(r)
                    ELSE WorkingPrompt(r)

\* with the style adapter switched off the stripped enriched text reached the
\* image backend as it is
C20_Witness ==
    \E r \in Reqs :
        /\ Gen(r)
        /\ req[r].pipeline_args # None
        /\ req[r].enrichment = "ok"
        /\ ~The(req[r].config).stable_diffusion.use_lora
        /\ req[r].generated_text = Some(<<" ", "d", "u", "n", "e", "\n">>)
        /\ The(req[r].pipeline_args).prompt = <<"d", "u", "n", "e">>

\* an entry point run by r has ended
EntryPointEnded(r) == req[r].op \in EntryPoints /\ req[r].pc = "done"

\* C19: an entry point that ends on a ConfigurationError, on a pipeline
\* initialisation error (ImageGenerationError) or on a WatsonXModelError
\* exits with a nonzero code, one that is interrupted by the user exits with
\* code 0, app.main exits nonzero whenever it ends without a configuration or
\* without a pipeline for a reason other than an interrupt, and app.main has
\* launched the interface only with the configuration resolved and the
\* pipeline initialised and cached.
C19_ExitCodes ==
    \A r \in Reqs :
        /\ (EntryPointEnded(r) /\ req[r].caught # None)
              => /\ req[r].exit_code # None
                 /\ The(req[r].caught).type \in {"ConfigurationError", "ImageGenerationError",
                                                "WatsonXModelError"}
                      => The(req[r].exit_code) # 0
                 /\ The(req[r].caught).type = "KeyboardInterrupt"
                      => The(req[r].exit_code) = 0
        /\ (req[r].op = "main" /\ req[r].pc = "done"
              /\ (req[r].config = None \/ req[r].pipeline = None))
              => /\ req[r].caught # None
                 /\ req[r].exit_code # None
                 /\ The(req[r].caught).type # "KeyboardInterrupt"
                      => The(req[r].exit_code) # 0
        /\ (req[r].op = "main" /\ req[r].launched)
              => /\ req[r].config # None
                 /\ req[r].config = _global_config
                 /\ req[r].pipeline # None
                 /\ req[r].pipeline = _pipeline

\* app.main ended on a failed pipeline initialisation, after the
\* configuration was resolved, with exit code 1 and without a launch
C19_Witness ==
    \E r \in Reqs :
        /\ req[r].op = "main"
        /\ req[r].pc = "done"
        /\ req[r].config # None
        /\ req[r].caught = Some(PipelineInitError)
        /\ req[r].exit_code = Some(1)
        /\ ~req[r].launched

\* the position of a step in the body of generate_360_image (lines 146-211)
StepRank(pc) ==
    CASE pc = "idle" -> 0
      [] pc = "get_global_config" -> 1
      [] pc = "get_config" -> 2
      [] pc = "generate_environment" -> 3
      [] pc = "get_pipeline" -> 4
      [] pc = "from_pretrained" -> 5
      [] pc = "pipeline" -> 6
      [] OTHER -> 7

\* C21: within one generate_360_image request the steps occur in the fixed
\* order configuration resolution, enrichment call, pipeline acquisition,
\* image-backend call: every step of the request moves it strictly forward in
\* that order, the enrichment backend is called only in the enrichment step
\* and the image backend only in the pipeline step, each of the four is done
\* at most once, and a later one is done only after the earlier ones.
C21_FixedOrder ==
    [][\A r \in Reqs :
          (req'[r].op = "generate_360_image" /\ req'[r] # req[r]) =>
              /\ StepRank(req[r].pc) < StepRank(req'[r].pc)
              /\ req'[r].model_generate_calls # req[r].model_generate_calls
                     => req[r].pc = "generate_environment"
              /\ req'[r].pipeline_calls # req[r].pipeline_calls
                     => req[r].pc = "pipeline"
              /\ req'[r].config_calls <= 1
              /\ req'[r].model_generate_calls <= 1
              /\ req'[r].get_pipeline_calls <= 1
              /\ req'[r].pipeline_calls <= 1
              /\ req'[r].pipeline_calls = 1
                     => req'[r].get_pipeline_calls = 1 /\ req'[r].pipeline # None
              /\ req'[r].get_pipeline_calls = 1
                     => req'[r].enrichment # "none"
              /\ req'[r].enrichment # "none"
                     => req'[r].config_calls = 1 /\ req'[r].config # None]_vars

\* a request whose enrichment call and whose image call both failed has
\* returned after one call of each backend
C21_Witness ==
    \E r \in Reqs :
        /\ Returned(r)
        /\ req[r].enrichment = "WatsonXModelError"
        /\ req[r].model_generate_calls = 1
        /\ req[r].pipeline_calls = 1
        /\ The(req[r].pipeline_out).raises
        /\ req[r].get_pipeline_calls = 1
        /\ req[r].config_calls = 1

C24_ConfigurationErrorRaised ==
    \A r \in Reqs :
        (/\ req[r].op = "get_pipeline"
         /\ req[r].pc = "done"
         /\ req[r].raised # None
         /\ req[r].constructions = 0
         /\ _global_config = None
         /\ get_config(env, config_objects + 1).raised) =>
            (get_config(env, config_objects + 1).exc.type = "ConfigurationError"
                 => The(req[r].raised).type = "ConfigurationError")

\* C25: a failed lazy initialisation is never cached.  A get_config that
\* fails leaves _global_config empty and a construction that fails leaves
\* _pipeline empty (and, when it failed on the configuration, _global_config
\* too); a call that finds a cache empty goes on to the full load, or the
\* full construction, whatever happened in earlier calls.
C25_FailureNotCached ==
    [][\A r \in Reqs :
          req'[r] # req[r] =>
              /\ (req[r].pc = "get_global_config" /\ _global_config = None)
                     => req'[r].pc = "get_config"
              /\ (req[r].pc = "get_config" /\ req'[r].config = None)
                     => _global_config' = None /\ config_objects' = config_objects
              /\ (req[r].pc = "get_pipeline" /\ _pipeline = None)
                     => req'[r].pc = "from_pretrained"
              /\ (req[r].pc = "from_pretrained" /\ req'[r].pipeline = None)
                     => /\ _pipeline' = None
                        /\ req'[r].constructions = req[r].constructions
                               => _global_config' = None]_vars

\* after a construction that failed, a later request has built the pipeline,
\* which is now the cached one, and got its image from it
C25_Witness ==
    \E r \in Reqs :
        /\ Returned(r)
        /\ req[r].constructions = 1
        /\ from_pretrained_calls = 2
        /\ _pipeline # None
        /\ The(_pipeline).id = 2
        /\ req[r].pipeline = _pipeline
        /\ BackendGaveImage(r)

\* C27: an enrichment response whose first generated text is empty or made of
\* whitespace only counts as a success: the request records no enrichment
\* error, does not fall back to the caller's prompt, goes on to the pipeline,
\* and the prompt handed to the image backend is empty, or the trigger token
\* followed by one space when the style adapter is enabled.
C27_BlankEnrichmentIsSuccess ==
    \A r \in Reqs :
        (/\ Gen(r)
         /\ req[r].generated_text # None
         /\ Strip(The(req[r].generated_text)) = <<>>) =>
            /\ req[r].enrichment = "ok"
            /\ req[r].enrich_exc = None
            /\ req[r].status_msg = StatusGenerating
            /\ req[r].enriched_prompt =
                   Some(IF TriggerApplies(The(req[r].config))
                        THEN The(req[r].config).stable_diffusion.trigger_word \o <<" ">>
                        ELSE <<>>)
            /\ req[r].pipeline_args # None
                   => The(req[r].pipeline_args).prompt = The(req[r].enriched_prompt)
            /\ Returned(r) => req[r].pipeline_calls + req[r].constructions >= 1

\* the image backend was called with the empty prompt after the enrichment
\* backend had answered a non-blank prompt with one blank character, and the
\* request ended with an image
C27_Witness ==
    \E r \in Reqs :
        /\ Returned(r)
        /\ ~IsBlank(req[r].prompt)
        /\ req[r].generated_text = Some(<<" ">>)
        /\ req[r].enrichment = "ok"
        /\ req[r].pipeline_calls = 1
        /\ The(req[r].pipeline_args).prompt = <<>>
        /\ The(req[r].result).image # None

\* C22: the lazy initialisations take no lock and do not look at the cache
\* again after the load.  Under concurrent requests, two callers that both
\* passed the empty-cache check of get_pipeline and both built a pipeline hold
\* two different instances (from_pretrained has then run at least twice), and
\* so do two callers that both loaded the configuration; a caller holds a
\* pipeline (a configuration) other than the cached one only after a second
\* construction (a second load) has replaced the cached instance.
C22_RaceOnEmptyCache ==
    \A r \in Reqs : \A q \in Reqs \ {r} :
        /\ (/\ req[r].pipeline # None /\ req[r].constructions = 1
            /\ req[q].pipeline # None /\ req[q].constructions = 1)
               => /\ req[r].pipeline # req[q].pipeline
                  /\ from_pretrained_calls >= 2
        /\ (/\ req[r].config # None /\ req[r].get_config_calls = 1
            /\ req[q].config # None /\ req[q].get_config_calls = 1)
               => /\ req[r].config # req[q].config
                  /\ config_objects >= 2
        /\ (req[r].pipeline # None /\ req[r].pipeline # _pipeline)
               => from_pretrained_calls >= 2 /\ _pipeline # None
        /\ (req[r].config # None /\ req[r].config # _global_config)
               => config_objects >= 2 /\ _global_config # None

\* two interleaved requests both found the caches empty, each loaded its own
\* configuration and built its own pipeline, and both returned holding
\* different instances
C22_Witness ==
    \E r \in Reqs : \E q \in Reqs \ {r} :
        /\ Returned(r) /\ Returned(q)
        /\ req[r].get_config_calls = 1 /\ req[q].get_config_calls = 1
        /\ req[r].config # req[q].config
        /\ config_objects = 2
        /\ req[r].constructions = 1 /\ req[q].constructions = 1
        /\ req[r].pipeline # None /\ req[q].pipeline # None
        /\ req[r].pipeline # req[q].pipeline
        /\ from_pretrained_calls = 2
        /\ req[q].pipeline = _pipeline

====
